---- MODULE Spec2Model ----
(***************************************************************************)
(* A model of fo_qbo: the API error classifier QBOErrorHandler             *)
(* (src/fo_qbo/errors.py) and the OAuth2 session QBAuth2                   *)
(* (src/fo_qbo/qba.py).                                                    *)
(*                                                                         *)
(* Text is modelled as a sequence of tokens; the two phrases the           *)
(* classifier searches for are one token each, and str.contains / `in`     *)
(* is the search for that token in the sequence.  A pandas DataFrame is    *)
(* the sequence of its rows; a cell that pandas fills with NaN because     *)
(* the key was missing holds the token sequence NaN.                       *)
(***************************************************************************)
EXTENDS Integers, Sequences, FiniteSets, TLC

(***************************************************************************)
(* Bounds of the model.                                                    *)
(***************************************************************************)
\* elementary errors in one response body, over all of its fault wrappers
MaxErrors == 2
\* items of a batch response or of a pre-normalized list
MaxItems == 2

\* token exchanges the provider accepts
MaxExchanges == 2
\* advances of the clock
MaxTicks == 1
\* calls of request() and, from outside request(), of refresh()
MaxCalls == 2
\* largest max_tries of a retry decorator and largest 'tries' keyword
MaxTries == 4
\* calls of _basic_call inside one another that the interpreter allows
\* before it raises RecursionError
MaxDepth == 2
\* objects in the server's result set
MaxObjects == 3
\* HTTP requests of one operation that are followed
MaxRequests == 5

(***************************************************************************)
(* Program constants (class attributes of QBOErrorHandler).                *)
(***************************************************************************)
SUPPORTED_STATUS_CODES == {200, 400}
CACHING_ERROR_CODES == {"5010", "610"}
BUSINESS_VALIDATION_ERROR_CODES == {"6000"}
OTHER_SUSPECTED_TRANSIENT_ERROR_CODES == {}
rollback_days == 40

\* 'Another user has deleted this transaction'
DELETED_PHRASE == "Another user has deleted this transaction"
\* 'Please wait a few minutes and try again'
WAIT_PHRASE == "Please wait a few minutes and try again"
BVA == "BudgetVsActuals"

(***************************************************************************)
(* Input domains.                                                          *)
(***************************************************************************)
Codes == {"5010", "610", "6000", "5020"}
NaN == <<"NaN">>
\* detail texts sent with each code: missing (NaN), without a phrase, with a
\* phrase inside
DetailsOf(code) ==
    CASE code = "5010" -> {<<"x">>}
      [] code = "610" -> {NaN, <<"x">>, <<"x", DELETED_PHRASE>>}
      [] code = "6000" -> {NaN, <<"x">>, <<"x", DELETED_PHRASE>>, <<WAIT_PHRASE, "x">>}
      [] OTHER -> {<<"x">>, <<WAIT_PHRASE, "x">>}
StatusCodes == {200, 400, 500}
Urls == {<<"reports", BVA>>, <<"query">>}
Reasons == {"", "user_not_in_realm", "other_reason"}

\* the Message the provider sends with each code
MessageOf(code) ==
    CASE code = "5010" -> "Stale Object Error"
      [] code = "610" -> "Object Not Found"
      [] code = "6000" -> "A business validation error has occurred"
      [] OTHER -> "Feature Not Supported Error"

ElemErrors ==
    UNION { { [code |-> c, Detail |-> d, Message |-> MessageOf(c)] : d \in DetailsOf(c) } : c \in Codes }

SeqsUpTo(S, n) == UNION { [1..k -> S] : k \in 0..n }

\* str.contains(phrase) / `phrase in text`
Contains(text, phrase) == \E i \in 1..Len(text) : text[i] = phrase

\* Series.fillna('')
fillna(text) == IF text = NaN THEN <<>> ELSE text

(***************************************************************************)
(* Response bodies.  An item is one element of a batch or of a list, or a  *)
(* single-object body: with a 'Fault' wrapper (and its 'Error' list) or    *)
(* without one, and with a sibling field (bId, time, entry_label).         *)
(***************************************************************************)
Item(hasFault, errs, sib) == [hasFault |-> hasFault, Error |-> errs, sib |-> sib]

\* a layout says, item by item, how many errors the item's wrapper holds;
\* -1 is an item without a wrapper
Layouts == SeqsUpTo(-1..MaxErrors, MaxItems)

RECURSIVE LayoutSum(_)
LayoutSum(l) ==
    IF l = <<>> THEN 0
    ELSE (IF Head(l) < 0 THEN 0 ELSE Head(l)) + LayoutSum(Tail(l))

RECURSIVE Pack(_, _, _)
Pack(l, errs, n) ==
    IF l = <<>> THEN <<>>
    ELSE IF Head(l) < 0
         THEN <<Item(FALSE, <<>>, n)>> \o Pack(Tail(l), errs, n + 1)
         ELSE <<Item(TRUE, SubSeq(errs, 1, Head(l)), n)>>
              \o Pack(Tail(l), SubSeq(errs, Head(l) + 1, Len(errs)), n + 1)

\* the layouts that hold n errors
LayoutsOf(n) == { l \in Layouts : LayoutSum(l) = n }
ErrorLists == SeqsUpTo(ElemErrors, MaxErrors)

\* a parsed JSON body: a dict (with the keys it has) or a list
Dict(keys, errs, items, reason) ==
    [type |-> "dict", keys |-> keys, Error |-> errs, items |-> items, x_error_reason |-> reason]
List(items) ==
    [type |-> "list", keys |-> {}, Error |-> <<>>, items |-> items, x_error_reason |-> ""]
EmptyDict == Dict({}, <<>>, <<>>, "")

ReasonKeys(reason) == IF reason = "" THEN {} ELSE {"x_error_reason"}

\* requests.Response: status, request URL, and the body json() parses
\* (json_ok = FALSE: json() raises)
Response(status, u, json_ok, body) ==
    [present |-> TRUE, status_code |-> status, url |-> u, json_ok |-> json_ok, body |-> body]
NoResponse == [present |-> FALSE, status_code |-> 0, url |-> <<>>, json_ok |-> FALSE, body |-> EmptyDict]

\* the bodies of the model, by shape
SingleBody(errs, r) == Dict({"Fault"} \cup ReasonKeys(r), errs, <<>>, r)
BatchBody(l, errs) == Dict({"BatchItemResponse"}, <<>>, Pack(l, errs, 1), "")
ListBody(l, errs) == List(Pack(l, errs, 1))
PlainBody(r) == Dict(ReasonKeys(r), <<>>, <<>>, r)

Shapes == {"single", "batch", "list", "plain"}
BodyOf(shape, l, errs, r) ==
    CASE shape = "single" -> SingleBody(errs, r)
      [] shape = "batch" -> BatchBody(l, errs)
      [] shape = "list" -> ListBody(l, errs)
      [] OTHER -> PlainBody(r)
\* one choice of (l, errs, r) for each body
Canonical(shape, l, errs, r) ==
    CASE shape = "single" -> l = <<Len(errs)>>
      [] shape = "batch" -> r = ""
      [] shape = "list" -> r = ""
      [] OTHER -> errs = <<>> /\ l = <<>>

(***************************************************************************)
(* State.                                                                  *)
(***************************************************************************)
VARIABLES
    response,        \* QBOErrorHandler._response
    response_data,   \* QBOErrorHandler._response_data
    faults,          \* QBOErrorHandler._faults
    error_df,        \* QBOErrorHandler._error_df, the sequence of its rows
    seen_transient,  \* QBOErrorHandler._has_seen_a_suspected_transient_error
    pc,              \* "new" (no response given yet) | "constructed" | "resolved"
    branch,          \* the branch of resolve() the last call took
    raised,          \* what the last resolve() raised
    trace            \* collaborator calls and the raise of the last resolve(), in order

ehVars == <<response, response_data, faults, error_df, seen_transient, pc, branch, raised, trace>>

VARIABLES
    qba,        \* the QBAuth2 object of each process: attributes, AuthClient
                \* session, and where its refresh() call stands
    store,      \* the client credentials in the TokenStore (FODarkonimBucket)
    token_log,  \* the entries of the 'tokens-qbo' log that carry an access_token label
    provider,   \* the provider's token endpoint: the tokens it holds valid
    now,        \* datetime.datetime.utcnow(), in half minutes
    ticks,      \* advances of the clock so far
    calls       \* calls of refresh() so far

authVars == <<qba, store, token_log, provider, now, ticks, calls>>

VARIABLES
    qbs,        \* the QBS object whose _basic_call is called, with the
                \* attributes of its QBAuth2 that _basic_call reads
    frames,     \* the running calls of retry's inner(), outermost first
    done,       \* how the last outermost call of inner() ended
    built       \* how the last call of QBS(...) ended

qbsVars == <<qbs, frames, done, built>>

VARIABLES
    api,        \* what the operations of QBS meet: the job's touchless_mode
                \* argument, the environment, the server's result set and
                \* how it reads a query with several STARTPOSITION clauses
    op,         \* the operation of QBS in progress or last finished
    wire        \* the HTTP requests that operation has issued, in order

opsVars == <<api, op, wire>>

VARIABLES
    qboauth,    \* the QBOAuth object: its attributes and how its last
                \* method call ended
    buckets,    \* the client credentials in the FODarkonimBucket of each
                \* client code
    bucket_setter   \* what assigning FODarkonimBucket.client_credentials
                    \* does to the keys that the assigned dict lacks

qboVars == <<qboauth, buckets, bucket_setter>>
vars == <<ehVars, authVars, qbsVars, opsVars, qboVars>>

(***************************************************************************)
(* QBOErrorHandler: fault extraction.                                      *)
(***************************************************************************)
\* the body seen as one item (the "non-batch" format: faults = [data])
AsItem(data) == Item("Fault" \in data.keys, data.Error, 0)

\* get_list_of_faults keeping every item of a batch
get_list_of_faults_unfiltered(data) ==
    IF data.type = "dict" /\ "Fault" \in data.keys
    THEN <<AsItem(data)>>
    ELSE IF data.type = "dict" /\ "BatchItemResponse" \in data.keys
    THEN data.items
    ELSE IF data.type = "list" /\ Len(data.items) > 0 /\ data.items[1].hasFault
    THEN data.items
    ELSE <<>>

get_list_of_faults(data) ==
    IF data.type = "dict" /\ "Fault" \in data.keys
    THEN <<AsItem(data)>>
    ELSE IF data.type = "dict" /\ "BatchItemResponse" \in data.keys
    THEN SelectSeq(data.items, LAMBDA i : i.hasFault)
    ELSE IF data.type = "list" /\ Len(data.items) > 0 /\ data.items[1].hasFault
    THEN data.items
    ELSE <<>>

\* json_normalize(row.Fault, record_path=['Error']) plus the sibling columns
RowsOf(item) ==
    [ k \in 1..Len(item.Error) |->
        [code |-> item.Error[k].code, Detail |-> item.Error[k].Detail,
         Message |-> item.Error[k].Message, sib |-> item.sib] ]

RECURSIVE Flatten(_)
Flatten(items) ==
    IF items = <<>> THEN <<>> ELSE RowsOf(Head(items)) \o Flatten(Tail(items))

\* json_normalize raises on a row whose Fault cell is NaN (no wrapper)
NormalizeRaises(items) == \E i \in 1..Len(items) : ~items[i].hasFault

get_error_df(items) == Flatten(items)

\* the error_df setter: an exception of get_error_df leaves the empty frame
set_error_df(items) == IF NormalizeRaises(items) THEN <<>> ELSE get_error_df(items)

\* names of the columns of the frame
Columns(df) ==
    (IF Len(df) > 0 THEN {"code", "Message"} ELSE {})
    \cup (IF \E i \in 1..Len(df) : df[i].Detail # NaN THEN {"Detail"} ELSE {})

(***************************************************************************)
(* QBOErrorHandler: the four predicates.                                   *)
(***************************************************************************)
status_code == IF response.present THEN response.status_code ELSE 0
url == response.url

\* has_caching_errors without the '5010' shortcut
has_caching_errors_phrase_only ==
    /\ \E i \in 1..Len(error_df) : error_df[i].code \in CACHING_ERROR_CODES
    /\ \E i \in 1..Len(error_df) : Contains(fillna(error_df[i].Detail), DELETED_PHRASE)

has_caching_errors ==
    IF /\ Len(error_df) > 0
       /\ "code" \in Columns(error_df)
       /\ \E i \in 1..Len(error_df) : error_df[i].code \in CACHING_ERROR_CODES
    THEN IF \E i \in 1..Len(error_df) : error_df[i].code = "5010"
         THEN TRUE
         ELSE IF "Detail" \in Columns(error_df)
              THEN \E i \in 1..Len(error_df) :
                       Contains(fillna(error_df[i].Detail), DELETED_PHRASE)
              ELSE FALSE
    ELSE FALSE

\* has_suspected_transient_errors with the phrase sought in any row
has_suspected_transient_errors_any_row ==
    /\ \E i \in 1..Len(error_df) : error_df[i].code \in BUSINESS_VALIDATION_ERROR_CODES
    /\ \E i \in 1..Len(error_df) : Contains(fillna(error_df[i].Detail), WAIT_PHRASE)

has_suspected_transient_errors ==
    IF Len(error_df) < 1 \/ "code" \notin Columns(error_df)
    THEN FALSE
    ELSE IF /\ \E i \in 1..Len(error_df) : error_df[i].code \in BUSINESS_VALIDATION_ERROR_CODES
            /\ "Detail" \in Columns(error_df)
         THEN \E i \in 1..Len(error_df) :
                  /\ error_df[i].code \in BUSINESS_VALIDATION_ERROR_CODES
                  /\ Contains(fillna(error_df[i].Detail), WAIT_PHRASE)
         ELSE \E i \in 1..Len(error_df) :
                  error_df[i].code \in OTHER_SUSPECTED_TRANSIENT_ERROR_CODES

has_authorization_errors ==
    /\ response_data.type = "dict"
    /\ "x_error_reason" \in response_data.keys
    /\ response_data.x_error_reason = "user_not_in_realm"

\* has_feature_permission_errors without the status test
has_feature_permission_errors_any_status ==
    \E i \in 1..Len(error_df) : error_df[i].code = "5020"

has_feature_permission_errors ==
    IF status_code # 400
    THEN FALSE
    ELSE IF "code" \notin Columns(error_df)
         THEN FALSE
         ELSE \E i \in 1..Len(error_df) : error_df[i].code = "5020"

error_slug ==
    IF has_feature_permission_errors
    THEN IF Contains(url, BVA)
         THEN "qbo-api-error-permission-denied-bva"
         ELSE "qbo-api-error-permission-denied-unspecified"
    ELSE "qbo-api-error-unspecified"

(***************************************************************************)
(* Collaborator calls and exceptions.                                      *)
(***************************************************************************)
Call(fn, days, flag) == [fn |-> fn, days_ago |-> days, flag |-> flag]
\* restore_qbo_cache(qbs=self._qbs, days_ago=rollback_days, ignore_cdc_load=True)
RestoreCall == Call("restore_qbo_cache", rollback_days, TRUE)
\* create_disconnection_ticket(client_code=self._qbs.client_code, user_not_in_realm=True)
TicketCall == Call("create_disconnection_ticket", 0, TRUE)
\* self._qbs.query("Budget")
QueryCall == Call("query Budget", 0, FALSE)
\* self.exception() in an except block: the exception is logged and dropped
ExceptionLogged == Call("exception", 0, FALSE)
Raise(type) == Call(type, 0, FALSE)

Exc(type, detail, name, code, slug) ==
    [type |-> type, detail |-> detail, name |-> name, code |-> code, error_slug |-> slug]
NoExc == Exc("none", <<>>, "", "", "")

\* what one branch of resolve() does
Effect(tr, exc, seen) == [trace |-> tr, raised |-> exc, seen |-> seen]

LastWithCode(df, codes) ==
    df[CHOOSE i \in 1..Len(df) :
          /\ df[i].code \in codes
          /\ \A j \in (i + 1)..Len(df) : df[j].code \notin codes]

\* error_df.loc[error_df.code.isin(codes)].iloc[0]
FirstWithCode(df, codes) ==
    df[CHOOSE i \in 1..Len(df) :
          /\ df[i].code \in codes
          /\ \A j \in 1..(i - 1) : df[j].code \notin codes]

\* error_text: a Budget-vs-Actuals denial queries the budgets first
error_text_calls ==
    IF error_slug = "qbo-api-error-permission-denied-bva" THEN <<QueryCall>> ELSE <<>>

(***************************************************************************)
(* QBOErrorHandler: construction and resolve().                            *)
(***************************************************************************)
\* the state reset_state() leaves
EHReset ==
    /\ response = NoResponse
    /\ response_data = EmptyDict
    /\ faults = <<>>
    /\ error_df = <<>>

\* the part of the state one resolve() call writes
Fresh ==
    /\ pc' = "constructed"
    /\ branch' = "none"
    /\ raised' = NoExc
    /\ trace' = <<>>
    /\ seen_transient' = FALSE

\* QBOErrorHandler(qbs, response=r): the response setter cascades to
\* response_data, faults and error_df
NewWithResponse(r) ==
    LET data == IF r.json_ok THEN r.body ELSE EmptyDict
        list == get_list_of_faults(data)
    IN  /\ pc = "new"
        /\ response' = r
        /\ response_data' = data
        /\ faults' = list
        /\ error_df' = set_error_df(list)
        /\ Fresh
        /\ UNCHANGED <<authVars, qbsVars, opsVars, qboVars>>

\* QBOErrorHandler(qbs, response_data=d)
NewWithData(d) ==
    LET list == get_list_of_faults(d)
    IN  /\ pc = "new"
        /\ response' = NoResponse
        /\ response_data' = d
        /\ faults' = list
        /\ error_df' = set_error_df(list)
        /\ Fresh
        /\ UNCHANGED <<authVars, qbsVars, opsVars, qboVars>>

\* the if / elif chain of resolve(), with the last elif taken as else
resolve_branch_else ==
    IF has_caching_errors THEN "caching"
    ELSE IF has_suspected_transient_errors THEN "transient"
    ELSE IF has_authorization_errors THEN "authorization"
    ELSE "feature"

\* the chain with the feature test ahead of the authorization test
resolve_branch_feature_first ==
    IF has_caching_errors THEN "caching"
    ELSE IF has_suspected_transient_errors THEN "transient"
    ELSE IF has_feature_permission_errors THEN "feature"
    ELSE IF has_authorization_errors THEN "authorization"
    ELSE "none"

\* the chain written with `if` for the authorization test
resolve_branch_authorization_first ==
    IF has_authorization_errors THEN "authorization"
    ELSE IF has_caching_errors THEN "caching"
    ELSE IF has_suspected_transient_errors THEN "transient"
    ELSE IF has_feature_permission_errors THEN "feature"
    ELSE "none"

\* the if / elif chain of resolve()
resolve_branch ==
    IF has_caching_errors THEN "caching"
    ELSE IF has_suspected_transient_errors THEN "transient"
    ELSE IF has_authorization_errors THEN "authorization"
    ELSE IF has_feature_permission_errors THEN "feature"
    ELSE "none"

\* the caching branch with the raise after the try statement
caching_branch_raise_always(try_fails) ==
    LET error == FirstWithCode(error_df, CACHING_ERROR_CODES)
        exc == Exc("CachingError", error.Detail, error.Message, error.code, "")
    IN  IF try_fails
        THEN Effect(<<ExceptionLogged, Raise("CachingError")>>, exc, seen_transient)
        ELSE Effect(<<RestoreCall, Raise("CachingError")>>, exc, seen_transient)

\* the caching branch: try (import, pick the error, log) / except / else
\* (repair, raise)
caching_branch(try_fails) ==
    IF try_fails
    THEN Effect(<<ExceptionLogged>>, NoExc, seen_transient)
    ELSE LET error == FirstWithCode(error_df, CACHING_ERROR_CODES)
         IN  Effect(<<RestoreCall, Raise("CachingError")>>,
                    Exc("CachingError", error.Detail, error.Message, error.code, ""),
                    seen_transient)

\* the suspected-transient branch: try (pick the error, log) / except / else
transient_branch(try_fails) ==
    IF try_fails
    THEN Effect(<<ExceptionLogged>>, NoExc, seen_transient)
    ELSE LET error == FirstWithCode(error_df, BUSINESS_VALIDATION_ERROR_CODES)
         IN  Effect(<<Raise("SuspectedTransientError")>>,
                    Exc("SuspectedTransientError", error.Detail, error.Message, error.code, ""),
                    TRUE)

authorization_branch == Effect(<<TicketCall>>, NoExc, seen_transient)

feature_branch ==
    Effect(error_text_calls \o <<Raise("APIError")>>,
           Exc("APIError", <<>>, "", "", error_slug), seen_transient)

\* resolve(); try_fails: the import or a logging call inside the try block
\* of the branch raises (the handler logs and drops that exception)
resolve(try_fails) ==
    LET b == resolve_branch
        e == CASE b = "caching" -> caching_branch(try_fails)
               [] b = "transient" -> transient_branch(try_fails)
               [] b = "authorization" -> authorization_branch
               [] b = "feature" -> feature_branch
               [] OTHER -> Effect(<<>>, NoExc, seen_transient)
    IN  /\ pc = "constructed"
        /\ pc' = "resolved"
        /\ branch' = b
        /\ trace' = e.trace
        /\ raised' = e.raised
        /\ seen_transient' = e.seen
        /\ UNCHANGED <<response, response_data, faults, error_df>>
        /\ UNCHANGED <<authVars, qbsVars, opsVars, qboVars>>

(***************************************************************************)
(* QBAuth2 (src/fo_qbo/qba.py).                                            *)
(*                                                                         *)
(* Time counts half minutes.  str(datetime) is the text the code compares: *)
(* fixed-width digits, followed by a fraction only when the microseconds   *)
(* are not zero (here: on the odd half minutes).  A text is the sequence   *)
(* of its character codes and is compared as Python compares str.  None    *)
(* is the empty text for a timestamp and 0 for a token.                    *)
(***************************************************************************)
\* save_new_tokens: timedelta(minutes=55)
ACCESS_TOKEN_MINUTES == 55
\* get_latest_tokens_from_log: timedelta(minutes=58)
LOG_TOKEN_MINUTES == 58
\* @retry(max_tries=3, ...) on refresh()
REFRESH_MAX_TRIES == 3
\* get_token_log_entries: max_results=3
max_results == 3

Sessions == {"A", "B"}
None == 0
NoTime == <<>>
Minutes(n) == 2 * n

\* str(datetime.datetime)
Str(t) ==
    LET whole == t \div 2
    IN  <<48 + (whole \div 100), 48 + ((whole \div 10) % 10), 48 + (whole % 10)>>
        \o (IF t % 2 = 1 THEN <<46, 53>> ELSE <<>>)

\* the time a text written by Str stands for
TimeOf(text) ==
    2 * (100 * (text[1] - 48) + 10 * (text[2] - 48) + (text[3] - 48))
    + (IF Len(text) > 3 THEN 1 ELSE 0)

\* a < b on str
StrLT(a, b) ==
    \E k \in 1..(Len(b)) :
        /\ \A j \in 1..(k - 1) : j <= Len(a) /\ a[j] = b[j]
        /\ k > Len(a) \/ a[k] < b[k]
StrGE(a, b) == ~StrLT(a, b)
Truthy(text) == text # NoTime

\* reload_credentials: every credential attribute is read again from the store
reload_credentials(q, st) ==
    [q EXCEPT !.access_token = st.access_token, !.refresh_token = st.refresh_token,
              !.realm_id = st.company_id, !.expires_at = st.expires_at,
              !.rt_acquired_at = st.rt_acquired_at]

\* initial_access_token: None when the stored token has expired
initial_access_token(st, t) ==
    IF Truthy(st.expires_at) /\ StrLT(st.expires_at, Str(t)) THEN None ELSE st.access_token

\* _login: _logged_in, for a session that does not prompt (verbosity < 8)
login(refresh_token) == refresh_token # None

\* QBAuth2.__init__ with credentials in the store.  Beyond the attributes:
\* pc, tries, exchanges, result: where the refresh() call stands, the tries
\* its retry wrapper has left, its calls of session.refresh(), its outcome;
\* rpc, rtries, http, bearer, refreshes, rresult: the same for request():
\* its HTTP requests, the bearer of the last one, its calls of refresh()
\* after a 401, and its outcome; submitted: the refresh token that its last
\* session.refresh() sent; trace: what the last run of the body of
\* refresh() called, in order, besides session.refresh() and the logging
NewQBAuth2(st, t) ==
    [access_token |-> st.access_token, refresh_token |-> st.refresh_token,
     realm_id |-> st.company_id, expires_at |-> st.expires_at,
     rt_acquired_at |-> st.rt_acquired_at,
     session |-> [access_token |-> initial_access_token(st, t),
                  refresh_token |-> st.refresh_token],
     auth_client_error_retry_count |-> 0,
     last_call_was_unauthorized |-> "None",
     new_token |-> FALSE, new_refresh_token |-> FALSE,
     pc |-> "idle", tries |-> 0, exchanges |-> 0, result |-> "none",
     logged_in |-> login(st.refresh_token), has_access |-> FALSE,
     rpc |-> "idle", rtries |-> 0, http |-> 0, bearer |-> None,
     refreshes |-> 0, rresult |-> "none",
     submitted |-> None, trace |-> <<>>]

\* _update_credentials that leaves the stored refresh_token alone
update_credentials_keeps_refresh_token(st, q, with_rt_acquired_at, t) ==
    [st EXCEPT !.access_token = q.access_token,
               !.expires_at = q.expires_at, !.company_id = q.realm_id,
               !.rt_acquired_at = IF with_rt_acquired_at THEN Str(t) ELSE @]

\* _update_credentials: the given keys overwrite the stored ones
update_credentials(st, q, with_rt_acquired_at, t) ==
    [st EXCEPT !.access_token = q.access_token, !.refresh_token = q.refresh_token,
               !.expires_at = q.expires_at, !.company_id = q.realm_id,
               !.rt_acquired_at = IF with_rt_acquired_at THEN Str(t) ELSE @]

\* save_new_tokens that writes the credentials before it sets expires_at
save_new_tokens_stale_expiry(q, st, t) ==
    IF q.new_token
    THEN LET q1 == [q EXCEPT !.expires_at = Str(t + Minutes(ACCESS_TOKEN_MINUTES))]
         IN  [q |-> [q1 EXCEPT !.new_token = FALSE, !.new_refresh_token = FALSE],
              store |-> update_credentials(st, q, q.new_refresh_token, t)]
    ELSE [q |-> q, store |-> st]

\* save_new_tokens: [q |-> the object, store |-> the store] afterwards
save_new_tokens(q, st, t) ==
    IF q.new_token
    THEN LET q1 == [q EXCEPT !.expires_at = Str(t + Minutes(ACCESS_TOKEN_MINUTES))]
         IN  [q |-> [q1 EXCEPT !.new_token = FALSE, !.new_refresh_token = FALSE],
              store |-> update_credentials(st, q1, q.new_refresh_token, t)]
    ELSE [q |-> q, store |-> st]

\* a token_logger.info call with access_token and refresh_token labels
LogEntry(kind, q, t) ==
    [kind |-> kind, access_token |-> q.access_token, refresh_token |-> q.refresh_token,
     timestamp |-> t]

\* a token log from which no entry written by log_token_fix can be read back
Logged_hides_fixes(log, entry) ==
    IF entry.kind \in {"fix_log", "fix_bucket"} THEN log ELSE <<entry>>

\* token_logger.info: the log, newest entry first.  Of the entries only what
\* the program can read back is kept: an entry that says 'Fixed ... using
\* GCP logs' is filtered out by every query, and of the entries a query
\* returns get_latest_tokens_from_log reads the first only.
Logged(log, entry) == IF entry.kind = "fix_log" THEN log ELSE <<entry>>

\* get_token_log_entries: at most max_results entries that are not 'Fixed
\* ... using GCP logs', newest first (all are younger than 30 days here)
get_token_log_entries(log) ==
    LET kept == SelectSeq(log, LAMBDA e : e.kind # "fix_log")
    IN  SubSeq(kept, 1, IF Len(kept) < max_results THEN Len(kept) ELSE max_results)

\* get_latest_tokens_from_log that does not find the refresh_token label
get_latest_tokens_from_log_no_refresh_token(log, log_ok) ==
    LET entries == IF log_ok THEN get_token_log_entries(log) ELSE <<>>
    IN  IF Len(entries) < 1
        THEN [access_token |-> None, refresh_token |-> None, expires_at |-> NoTime]
        ELSE [access_token |-> entries[1].access_token,
              refresh_token |-> None,
              expires_at |-> Str(entries[1].timestamp + Minutes(LOG_TOKEN_MINUTES))]

\* get_latest_tokens_from_log; log_ok = FALSE: the query raises
get_latest_tokens_from_log(log, log_ok) ==
    LET entries == IF log_ok THEN get_token_log_entries(log) ELSE <<>>
    IN  IF Len(entries) < 1
        THEN [access_token |-> None, refresh_token |-> None, expires_at |-> NoTime]
        ELSE [access_token |-> entries[1].access_token,
              refresh_token |-> entries[1].refresh_token,
              expires_at |-> Str(entries[1].timestamp + Minutes(LOG_TOKEN_MINUTES))]

\* fixed_by_reloading_credentials: [fixed, q] afterwards
fixed_by_reloading_credentials(q, st) ==
    LET expires_at == q.expires_at
        q1 == reload_credentials(q, st)
    IN  IF ~Truthy(q1.expires_at)
        THEN [fixed |-> FALSE, q |-> q1]
        ELSE IF (Truthy(expires_at) /\ StrLT(expires_at, q1.expires_at)) \/ ~Truthy(expires_at)
        THEN [fixed |-> \/ q1.access_token # q1.session.access_token
                        \/ q1.refresh_token # q1.session.refresh_token,
              q |-> [q1 EXCEPT !.session = [access_token |-> q1.access_token,
                                            refresh_token |-> q1.refresh_token]]]
        ELSE [fixed |-> FALSE, q |-> q1]

\* fixed_by_loading_from_log: [fixed, q, store] afterwards
fixed_by_loading_from_log(q, st, log, log_ok) ==
    LET token_dict == get_latest_tokens_from_log(log, log_ok)
    IN  IF /\ token_dict.access_token # None
           /\ token_dict.access_token # q.access_token
           /\ ~Truthy(q.expires_at) \/ StrGE(token_dict.expires_at, q.expires_at)
        THEN LET q1 == [q EXCEPT !.access_token = token_dict.access_token,
                                 !.expires_at = token_dict.expires_at,
                                 !.session.access_token = token_dict.access_token]
                 q2 == IF token_dict.refresh_token # q.refresh_token
                       THEN [q1 EXCEPT !.refresh_token = token_dict.refresh_token,
                                       !.session.refresh_token = token_dict.refresh_token]
                       ELSE q1
             IN  [fixed |-> TRUE, q |-> q2, store |-> update_credentials(st, q2, FALSE, 0)]
        ELSE [fixed |-> FALSE, q |-> q, store |-> st]

\* the guard of refresh() without the test of the counter
suspects_false_positive_any_count(q, t) ==
    /\ Truthy(q.expires_at)
    /\ StrGE(q.expires_at, Str(t))

\* the guard of refresh(), with > for >=
suspects_false_positive_strict(q, t) ==
    /\ q.auth_client_error_retry_count = 0
    /\ Truthy(q.expires_at)
    /\ StrLT(Str(t), q.expires_at)

\* the guard at the head of refresh(): a suspected false positive
suspects_false_positive(q, t) ==
    /\ q.auth_client_error_retry_count = 0
    /\ Truthy(q.expires_at)
    /\ StrGE(q.expires_at, Str(t))

\* refresh() returns
Returned(q) == [q EXCEPT !.pc = "idle", !.result = "returned"]

\* the retry wrapper of refresh() giving up one try late
Retried_one_more(q) ==
    IF q.tries - 1 < 0
    THEN [q EXCEPT !.pc = "idle", !.tries = 0, !.result = "AuthClientError"]
    ELSE [q EXCEPT !.tries = @ - 1]

\* refresh() raises AuthClientError into its retry wrapper, which calls it
\* again or, after the last try, lets the error out
Retried(q) ==
    IF q.tries - 1 <= 0
    THEN [q EXCEPT !.pc = "idle", !.tries = 0, !.result = "AuthClientError"]
    ELSE [q EXCEPT !.tries = @ - 1]

\* a caller outside request() calls refresh()
RefreshCall(s) ==
    /\ qba[s].pc = "idle"
    /\ qba[s].rpc = "idle"
    /\ calls < MaxCalls
    /\ calls' = calls + 1
    /\ qba' = [qba EXCEPT ![s] = [@ EXCEPT !.pc = "refresh", !.tries = REFRESH_MAX_TRIES,
                                           !.exchanges = 0, !.result = "none"]]
    /\ UNCHANGED <<store, token_log, provider, now, ticks>>
    /\ UNCHANGED <<ehVars, qbsVars, opsVars, qboVars>>

\* refresh(): the suspected false positive is passed over
RefreshSkip(s) ==
    /\ qba[s].pc = "refresh"
    /\ suspects_false_positive(qba[s], now)
    /\ qba' = [qba EXCEPT ![s] =
                 Returned([@ EXCEPT !.auth_client_error_retry_count = @ + 1,
                                    !.trace = <<"increment_auth_client_error_retry_count">>])]
    /\ UNCHANGED <<store, token_log, provider, now, ticks, calls>>
    /\ UNCHANGED <<ehVars, qbsVars, opsVars, qboVars>>

\* session.refresh() at a provider that takes any refresh token
accepted_by_provider_any(p, refresh_token) == refresh_token # None

\* session.refresh(): the provider exchanges the refresh token it holds valid
\* and no other
accepted_by_provider(p, refresh_token) ==
    refresh_token # None /\ refresh_token = p.refresh_token

\* refresh(): session.refresh() succeeds; the provider issues a new access
\* token and keeps or rotates the refresh token
RefreshAccepted(s, rotate) ==
    LET q == qba[s]
        n == provider.issued + 1
        rt == IF rotate THEN n ELSE provider.refresh_token
        q1 == [q EXCEPT !.session = [access_token |-> n, refresh_token |-> rt],
                        !.exchanges = @ + 1,
                        !.last_call_was_unauthorized = "False",
                        !.auth_client_error_retry_count = 0,
                        !.new_token = TRUE,
                        !.access_token = n,
                        !.refresh_token = rt,
                        !.submitted = q.session.refresh_token,
                        !.trace = <<"save_new_tokens", "log_token_event_outcome">>]
        saved == save_new_tokens(q1, store, now)
    IN  /\ q.pc = "refresh"
        /\ ~suspects_false_positive(q, now)
        /\ accepted_by_provider(provider, q.session.refresh_token)
        /\ provider.issued <= MaxExchanges
        /\ provider' = [access_token |-> n, refresh_token |-> rt, issued |-> n]
        /\ qba' = [qba EXCEPT ![s] = Returned(saved.q)]
        /\ store' = saved.store
        /\ token_log' = Logged(token_log, LogEntry("exchange", saved.q, now))
        /\ UNCHANGED <<now, ticks, calls>>
        /\ UNCHANGED <<ehVars, qbsVars, opsVars, qboVars>>

\* refresh(): session.refresh() raises AuthClientError (the refresh token is
\* stale, or the provider rejects a valid one); the three reconciliations
RefreshRejected(s, log_ok) ==
    LET q == qba[s]
        q1 == [q EXCEPT !.exchanges = @ + 1, !.last_call_was_unauthorized = "True",
                        !.submitted = q.session.refresh_token]
        reloaded == fixed_by_reloading_credentials(q1, store)
        logged == fixed_by_loading_from_log(reloaded.q, store, token_log, log_ok)
    IN  /\ q.pc = "refresh"
        /\ ~suspects_false_positive(q, now)
        /\ UNCHANGED <<provider, now, ticks, calls>>
        /\ UNCHANGED <<ehVars, qbsVars, opsVars, qboVars>>
        /\ \/ /\ reloaded.fixed
              /\ qba' = [qba EXCEPT ![s] =
                           Returned([reloaded.q EXCEPT
                              !.auth_client_error_retry_count = 0,
                              !.trace = <<"fixed_by_reloading_credentials",
                                          "log_token_fix">>])]
              /\ token_log' = Logged(token_log, LogEntry("fix_bucket", reloaded.q, now))
              /\ UNCHANGED store
           \/ /\ ~reloaded.fixed
              /\ logged.fixed
              /\ qba' = [qba EXCEPT ![s] =
                           Returned([logged.q EXCEPT
                              !.auth_client_error_retry_count = 0,
                              !.trace = <<"fixed_by_reloading_credentials",
                                          "fixed_by_loading_from_log",
                                          "log_token_fix">>])]
              /\ token_log' = Logged(token_log, LogEntry("fix_log", logged.q, now))
              /\ store' = logged.store
           \/ /\ ~reloaded.fixed
              /\ ~logged.fixed
              /\ qba' = [qba EXCEPT ![s] =
                           Retried([logged.q EXCEPT
                              !.auth_client_error_retry_count = @ + 1,
                              !.trace = <<"fixed_by_reloading_credentials",
                                          "fixed_by_loading_from_log", "raise">>])]
              /\ UNCHANGED <<store, token_log>>

(***************************************************************************)
(* QBAuth2.request(), under @retry(max_tries=4, exceptions=                *)
(* (UnauthorizedError,)), with establish_access() at its head.             *)
(***************************************************************************)
\* @retry(max_tries=4, ...) on request()
REQUEST_MAX_TRIES == 4

\* logged_in
logged_in(q) == IF q.last_call_was_unauthorized = "True" THEN FALSE ELSE q.logged_in

\* request() or establish_access() calls refresh()
StartRefresh(q) ==
    [q EXCEPT !.pc = "refresh", !.tries = REFRESH_MAX_TRIES, !.exchanges = 0, !.result = "none"]

\* establish_access() goes on to refresh(): no access yet, a refresh token,
\* and no access_token attribute
must_refresh(q) ==
    /\ ~q.has_access
    /\ q.refresh_token # None
    /\ q.access_token = None

\* establish_access() when it does not call refresh()
established(q) ==
    IF q.has_access THEN q
    ELSE [q EXCEPT !.has_access = (q.refresh_token # None)]

\* the provider's answer to a request with this bearer may be 200 or 429
\* only for the access token it holds valid; it may always be 401
StatusesFor(bearer) ==
    IF bearer # None /\ bearer = provider.access_token THEN {200, 401, 429} ELSE {401}

\* a caller calls request()
RequestCall(s) ==
    /\ qba[s].rpc = "idle"
    /\ qba[s].pc = "idle"
    /\ calls < MaxCalls
    /\ calls' = calls + 1
    /\ qba' = [qba EXCEPT ![s] = [@ EXCEPT !.rpc = "attempt", !.rtries = REQUEST_MAX_TRIES,
                                           !.http = 0, !.refreshes = 0, !.bearer = None,
                                           !.rresult = "none"]]
    /\ UNCHANGED <<store, token_log, provider, now, ticks>>
    /\ UNCHANGED <<ehVars, qbsVars, opsVars, qboVars>>

\* establish_access(): no access token, so refresh() is called
RequestEstablish(s) ==
    /\ qba[s].rpc = "attempt"
    /\ must_refresh(qba[s])
    /\ qba' = [qba EXCEPT ![s] = [StartRefresh(@) EXCEPT !.rpc = "establishing"]]
    /\ UNCHANGED <<store, token_log, provider, now, ticks, calls>>
    /\ UNCHANGED <<ehVars, qbsVars, opsVars, qboVars>>

\* establish_access(): its refresh() has returned, or has raised, which
\* ends request() (its retry wrapper catches UnauthorizedError only)
RequestEstablished(s) ==
    /\ qba[s].rpc = "establishing"
    /\ qba[s].pc = "idle"
    /\ qba' = [qba EXCEPT ![s] =
                 IF qba[s].result = "returned"
                 THEN [@ EXCEPT !.has_access = TRUE, !.rpc = "send"]
                 ELSE [@ EXCEPT !.rpc = "idle", !.rresult = qba[s].result]]
    /\ UNCHANGED <<store, token_log, provider, now, ticks, calls>>
    /\ UNCHANGED <<ehVars, qbsVars, opsVars, qboVars>>

\* the rest of one try of request(): the HTTP request with the session's
\* access token as bearer, and what follows the status of the response
RequestSend(s, status) ==
    LET q == IF qba[s].rpc = "send" THEN qba[s] ELSE established(qba[s])
        sent == [q EXCEPT !.http = @ + 1, !.bearer = q.session.access_token]
    IN  /\ \/ qba[s].rpc = "send"
           \/ qba[s].rpc = "attempt" /\ ~must_refresh(qba[s])
        /\ status \in StatusesFor(q.session.access_token)
        /\ qba' = [qba EXCEPT ![s] =
                     CASE status = 401 ->
                            [StartRefresh(sent) EXCEPT !.rpc = "refreshing", !.refreshes = @ + 1]
                       [] status = 429 ->
                            [sent EXCEPT !.last_call_was_unauthorized = "False",
                                         !.rpc = "idle", !.rresult = "RateLimitError"]
                       [] OTHER ->
                            [sent EXCEPT !.last_call_was_unauthorized = "False",
                                         !.rpc = "idle", !.rresult = "response"]]
        /\ UNCHANGED <<store, token_log, provider, now, ticks, calls>>
        /\ UNCHANGED <<ehVars, qbsVars, opsVars, qboVars>>

\* after a 401 whose refresh() returned, without the assignment that
\* follows refresh()
after_refresh_unmarked(q) ==
    IF q.result # "returned"
    THEN [q EXCEPT !.rpc = "idle", !.rresult = q.result]
    ELSE IF q.rtries - 1 <= 0
         THEN [q EXCEPT !.rpc = "idle", !.rtries = 0, !.rresult = "UnauthorizedError"]
         ELSE [q EXCEPT !.rpc = "attempt", !.rtries = @ - 1]

\* after a 401, with a retry wrapper that gives up one try late
after_refresh_one_more(q) ==
    IF q.result # "returned"
    THEN [q EXCEPT !.rpc = "idle", !.rresult = q.result]
    ELSE LET q1 == [q EXCEPT !.last_call_was_unauthorized = "True"]
         IN  IF q.rtries - 1 < 0
             THEN [q1 EXCEPT !.rpc = "idle", !.rtries = 0, !.rresult = "UnauthorizedError"]
             ELSE [q1 EXCEPT !.rpc = "attempt", !.rtries = @ - 1]

\* after a 401: refresh() has raised, which ends request(); or it has
\* returned: last_call_was_unauthorized = True and UnauthorizedError is
\* raised into the retry wrapper, which tries again or lets the error out
after_refresh(q) ==
    IF q.result # "returned"
    THEN [q EXCEPT !.rpc = "idle", !.rresult = q.result]
    ELSE LET q1 == [q EXCEPT !.last_call_was_unauthorized = "True"]
         IN  IF q.rtries - 1 <= 0
             THEN [q1 EXCEPT !.rpc = "idle", !.rtries = 0, !.rresult = "UnauthorizedError"]
             ELSE [q1 EXCEPT !.rpc = "attempt", !.rtries = @ - 1]

RequestAfterRefresh(s) ==
    /\ qba[s].rpc = "refreshing"
    /\ qba[s].pc = "idle"
    /\ qba' = [qba EXCEPT ![s] = after_refresh(@)]
    /\ UNCHANGED <<store, token_log, provider, now, ticks, calls>>
    /\ UNCHANGED <<ehVars, qbsVars, opsVars, qboVars>>

\* the clock advances: half a minute, or the life of an access token
Tick(d) ==
    /\ ticks < MaxTicks
    /\ ticks' = ticks + 1
    /\ now' = now + d
    /\ UNCHANGED <<qba, store, token_log, provider, calls>>
    /\ UNCHANGED <<ehVars, qbsVars, opsVars, qboVars>>

\* a QBOErrorHandler not yet constructed
EHFresh ==
    /\ EHReset
    /\ seen_transient = FALSE
    /\ pc = "new"
    /\ branch = "none"
    /\ raised = NoExc
    /\ trace = <<>>

\* no call of inner() has been made and no QBS(...) has been evaluated
NoCall == [fn |-> "none", result |-> "none", value |-> <<>>, invocations |-> 0,
           waits |-> <<>>, max_tries |-> 0, kw_tries |-> 0, delay |-> 0]
NoBuild == [raised |-> "none", oauth_version |-> 0, qba |-> FALSE, created |-> 0,
            store_reads |-> 0,
            given |-> [access_token_secret |-> FALSE, client_id |-> FALSE,
                       client_secret |-> FALSE]]

\* a QBS with a QBAuth2 that holds a refresh token and has access; nothing
\* is called on it (for the specifications of the other components)
QBSIdle ==
    /\ qbs = [oauth_version |-> 2, ntcbf |-> TRUE,
              qba |-> [vb8 |-> FALSE, new_token |-> FALSE, has_access |-> TRUE,
                       refresh_token |-> TRUE, access_token |-> TRUE],
              last_response |-> [status_code |-> 0, body |-> 0, parseable |-> FALSE,
                                 intuit_tid |-> FALSE],
              last_outcome |-> <<>>]
    /\ frames = <<>>
    /\ done = NoCall
    /\ built = NoBuild

\* no operation of QBS has been called
NoOp == [name |-> "none", pc |-> "idle", result |-> "none", value |-> <<>>,
         count_only |-> FALSE, per_page |-> 0, base_len |-> 0, query |-> <<>>,
         all_objs |-> <<>>]
OpsQuiet ==
    /\ api = [touchless |-> FALSE, production |-> TRUE, total |-> 0, reading |-> "last"]
    /\ op = NoOp
    /\ wire = <<>>

\* no QBOAuth has been constructed and no bucket holds credentials
ClientCodes == {"a", "b", "c"}
NoCredentials == [substitute_client_code |-> "", access_token |-> 0, refresh_token |-> 0,
                  company_id |-> 0, realm_id |-> 0]
NoQBOAuth == [client_code |-> "", effective_client_code |-> "", fo_darkonim |-> "",
              realm_id |-> 0, access_token |-> 0, refresh_token |-> 0,
              session |-> [realm_id |-> 0, access_token |-> 0, refresh_token |-> 0],
              has_access |-> FALSE, called |-> "none", result |-> "none",
              returned |-> "", wrote |-> FALSE]
QBOQuiet ==
    /\ qboauth = NoQBOAuth
    /\ buckets = [c \in ClientCodes |-> NoCredentials]
    /\ bucket_setter = "replace"

\* nothing is called on the QBS, its operations or a QBOAuth (for the
\* specifications of the other components)
QBSQuiet == QBSIdle /\ OpsQuiet /\ QBOQuiet

\* the credentials in the store when the processes start, the token log,
\* and two QBAuth2 objects constructed from that store
StartTime == 2
InitialExpiries == {NoTime, Str(1), Str(StartTime), Str(StartTime + Minutes(ACCESS_TOKEN_MINUTES))}
AuthInit ==
    /\ now = StartTime
    /\ ticks = 0
    /\ calls = 0
    /\ provider = [access_token |-> 1, refresh_token |-> 1, issued |-> 1]
    /\ \E at \in {None, 1}, e \in InitialExpiries :
          store = [access_token |-> at, refresh_token |-> 1, expires_at |-> e,
                   company_id |-> 1, rt_acquired_at |-> Str(0)]
    /\ token_log \in {<<>>} \cup
                     {<<[kind |-> kind, access_token |-> 1, refresh_token |-> 1,
                         timestamp |-> 0]>> : kind \in {"exchange", "fix_bucket"}}
    /\ qba = [s \in Sessions |-> NewQBAuth2(store, now)]
    /\ EHFresh
    /\ QBSQuiet

\* no QBAuth2 activity (for the specifications of the error handler)
AuthQuiet ==
    /\ now = StartTime
    /\ ticks = 0
    /\ calls = 0
    /\ provider = [access_token |-> 1, refresh_token |-> 1, issued |-> 1]
    /\ store = [access_token |-> 1, refresh_token |-> 1, expires_at |-> NoTime,
                company_id |-> 1, rt_acquired_at |-> Str(0)]
    /\ token_log = <<>>
    /\ qba = [s \in Sessions |-> NewQBAuth2(store, now)]

(***************************************************************************)
(* Specifications of the error handler.                                    *)
(***************************************************************************)
EHInit == EHFresh /\ AuthQuiet /\ QBSQuiet

\* QBOErrorHandler(qbs, response=r), for the responses of the model
Construct ==
    /\ pc = "new"
    /\ \E status \in StatusCodes, u \in Urls :
          \/ \E errs \in ErrorLists, shape \in Shapes, r \in Reasons :
                \E l \in LayoutsOf(Len(errs)) :
                   /\ Canonical(shape, l, errs, r)
                   /\ NewWithResponse(Response(status, u, TRUE, BodyOf(shape, l, errs, r)))
          \/ NewWithResponse(Response(status, u, FALSE, EmptyDict))

\* QBOErrorHandler(qbs, response_data=d), for the bodies of the model
ConstructFromData ==
    /\ pc = "new"
    /\ \E errs \in ErrorLists, shape \in Shapes, r \in Reasons :
          \E l \in LayoutsOf(Len(errs)) :
             /\ Canonical(shape, l, errs, r)
             /\ NewWithData(BodyOf(shape, l, errs, r))

Resolve == resolve(FALSE)
ResolveFailing == \E f \in BOOLEAN : resolve(f)

\* collaborators (the import, the logging) work
EHNext == Construct \/ ConstructFromData \/ Resolve
SpecEH == EHInit /\ [][EHNext]_vars

\* the import or the logging inside the try block of resolve() may raise
EHNextFailing == Construct \/ ConstructFromData \/ ResolveFailing
SpecEHFailing == EHInit /\ [][EHNextFailing]_vars

(***************************************************************************)
(* Specification of QBAuth2: two processes share the TokenStore.           *)
(***************************************************************************)
AuthNext ==
    \/ \E s \in Sessions : RefreshCall(s)
    \/ \E s \in Sessions : RefreshSkip(s)
    \/ \E s \in Sessions, rotate \in BOOLEAN : RefreshAccepted(s, rotate)
    \/ \E s \in Sessions, log_ok \in BOOLEAN : RefreshRejected(s, log_ok)
    \/ \E d \in {1, Minutes(ACCESS_TOKEN_MINUTES)} : Tick(d)
SpecAuth == AuthInit /\ [][AuthNext]_vars

(***************************************************************************)
(* Specification of request(): the processes call request() and refresh(). *)
(***************************************************************************)
\* the processes that call request(); the others call refresh() only
Requesters == {"A"}

RequestNext ==
    \/ \E s \in Requesters : RequestCall(s)
    \/ \E s \in Sessions : RequestEstablish(s)
    \/ \E s \in Sessions : RequestEstablished(s)
    \/ \E s \in Sessions, status \in {200, 401, 429} : RequestSend(s, status)
    \/ \E s \in Sessions : RequestAfterRefresh(s)
    \/ \E s \in Sessions \ Requesters : RefreshCall(s)
    \/ \E s \in Sessions : RefreshSkip(s)
    \/ \E s \in Sessions, rotate \in BOOLEAN : RefreshAccepted(s, rotate)
    \/ \E s \in Sessions, log_ok \in BOOLEAN : RefreshRejected(s, log_ok)
    \/ \E d \in {1, Minutes(ACCESS_TOKEN_MINUTES)} : Tick(d)
SpecRequest == AuthInit /\ [][RequestNext]_vars

\* both processes call request(), and refresh() only from inside it
RaceNext ==
    \/ \E s \in Sessions : RequestCall(s)
    \/ \E s \in Sessions : RequestEstablish(s)
    \/ \E s \in Sessions : RequestEstablished(s)
    \/ \E s \in Sessions, status \in {200, 401, 429} : RequestSend(s, status)
    \/ \E s \in Sessions : RequestAfterRefresh(s)
    \/ \E s \in Sessions : RefreshSkip(s)
    \/ \E s \in Sessions, rotate \in BOOLEAN : RefreshAccepted(s, rotate)
    \/ \E s \in Sessions, log_ok \in BOOLEAN : RefreshRejected(s, log_ok)
    \/ \E d \in {1, Minutes(ACCESS_TOKEN_MINUTES)} : Tick(d)
SpecRace == AuthInit /\ [][RaceNext]_vars

(***************************************************************************)
(* QBS (src/fo_qbo/qbs.py): the retry decorator, QBS(...) and _basic_call. *)
(*                                                                         *)
(* Seconds are counted in tenths.  A returned value and an exception are   *)
(* tuples: <<"rj", b>> is the parsed JSON of response body b,              *)
(* <<"ConnectionError", "json", b>> the ConnectionError whose argument is  *)
(* the parsed JSON of body b.                                              *)
(***************************************************************************)
\* retry(max_tries=2, delay_secs=0.2)
default_max_tries == 2
default_delay_secs == 2
\* a keyword that the call does not pass
NoKw == -1
\* max_tries of the decorators and 'tries' keywords of the calls
Tries == 0 .. MaxTries
\* delay_secs of the decorators: 0.2 s, 0.5 s
Delays == {default_delay_secs, 5}
\* bodies of the HTTP responses
Bodies == {1, 2}
\* status codes of the responses that QBAuth2.request() returns: it raises
\* on 401 and on 429
ReturnedStatuses == {200, 400, 500}
\* what the headers of the call ask for: JSON (the default), a PDF ('/pdf'
\* urls), or nothing ('download' urls and posts with their own headers)
Accepts == {"application/json", "application/pdf", "none"}
\* the data argument of _basic_call: absent, a string (a query), a dict (an
\* object, a batch, an upload)
DataKinds == {"None", "str", "dict"}
NoReply == [status_code |-> 0, body |-> 0, parseable |-> FALSE, intuit_tid |-> FALSE]
Responses ==
    [status_code : ReturnedStatuses, body : Bodies, parseable : BOOLEAN, intuit_tid : BOOLEAN]

\* inner(): tries = kwargs.get("tries", max_tries), delay = kwargs.get("delay",
\* delay_secs), attempts = 0
NewFrame(fn, max_tries, delay_secs, kw_tries, kw_delay, args) ==
    [fn |-> fn,
     tries |-> IF kw_tries = NoKw THEN max_tries ELSE kw_tries,
     delay |-> IF kw_delay = NoKw THEN delay_secs ELSE kw_delay,
     attempts |-> 0,
     pc |-> "call",
     invocations |-> 0,
     waits |-> <<>>,
     max_tries |-> max_tries,
     kw_tries |-> kw_tries,
     args |-> args]

\* what the outermost call of inner() leaves to its caller
Ended(f, result, value) ==
    [fn |-> f.fn, result |-> result, value |-> value, invocations |-> f.invocations,
     waits |-> f.waits, max_tries |-> f.max_tries, kw_tries |-> f.kw_tries,
     delay |-> f.delay]

\* time.sleep(delay * attempts)
backoff(f, attempts) == f.delay * attempts

\* the except branch of inner() in frame f: count the failure, then raise
\* the exception or sleep and go round the loop
except_keeps_first(f, ex) ==
    LET tries == f.tries - 1
        attempts == f.attempts + 1
    IN  IF tries <= 0
        THEN [raise |-> TRUE, ex |-> IF f.invocations > 1 THEN <<ex[1], 1>> ELSE ex,
              frame |-> [f EXCEPT !.tries = tries, !.attempts = attempts]]
        ELSE [raise |-> FALSE, ex |-> ex,
              frame |-> [f EXCEPT !.tries = tries, !.attempts = attempts, !.pc = "call",
                                  !.waits = Append(@, backoff(f, attempts))]]
except(f, ex) ==
    LET tries == f.tries - 1
        attempts == f.attempts + 1
    IN  IF tries <= 0
        THEN [raise |-> TRUE, ex |-> ex,
              frame |-> [f EXCEPT !.tries = tries, !.attempts = attempts]]
        ELSE [raise |-> FALSE, ex |-> ex,
              frame |-> [f EXCEPT !.tries = tries, !.attempts = attempts, !.pc = "call",
                                  !.waits = Append(@, backoff(f, attempts))]]

\* the function of the innermost frame raised ex: each inner() on the way
\* out either goes round its loop or lets ex through to the frame that
\* called it, whose function (line 351) lets it through to its own inner()
RECURSIVE Raised(_, _)
Raised(fs, ex) ==
    LET h == except(fs[Len(fs)], ex)
    IN  IF ~h.raise
        THEN [frames |-> [fs EXCEPT ![Len(fs)] = h.frame], done |-> NoCall]
        ELSE IF Len(fs) = 1
             THEN [frames |-> <<>>, done |-> Ended(h.frame, "raised", h.ex)]
             ELSE Raised(SubSeq(fs, 1, Len(fs) - 1), h.ex)

\* the function of the innermost frame returned value: every inner() and
\* every _basic_call on the way out returns it
Returns(fs, value) ==
    [frames |-> <<>>, done |-> Ended(fs[1], "returned", value)]

\* QBAuth2.establish_access() as _basic_call and request() call it, on the
\* attributes of the QBAuth2 that _basic_call reads: the outcomes are the
\* QBAuth2 afterwards and the exception that came out, if any.  refresh()
\* either exchanges the tokens (new_token is set and save_new_tokens()
\* clears it), returns without an exchange, or raises AuthClientError.
establish_access(q) ==
    IF q.has_access THEN {[q |-> q, exc |-> "none"]}
    ELSE IF ~q.refresh_token /\ ~q.vb8
    THEN {[q |-> [q EXCEPT !.has_access = FALSE], exc |-> "none"]}
    ELSE LET o == IF q.refresh_token THEN q
                  ELSE [q EXCEPT !.refresh_token = TRUE, !.access_token = TRUE,
                                 !.new_token = TRUE]
         IN  IF o.access_token
             THEN {[q |-> [o EXCEPT !.has_access = TRUE], exc |-> "none"]}
             ELSE {[q |-> [o EXCEPT !.has_access = TRUE, !.access_token = TRUE,
                                    !.new_token = FALSE], exc |-> "none"],
                   [q |-> [o EXCEPT !.has_access = TRUE], exc |-> "none"],
                   [q |-> o, exc |-> "AuthClientError"]}

\* QBAuth2.request() as _basic_call calls it, establish_access() at its
\* head: a response whose status is neither 401 nor 429, or
\* UnauthorizedError, RateLimitError, or the AuthClientError of a
\* refresh(); a refresh() that exchanged the tokens after a 401 has saved
\* them, which clears new_token
request(q) ==
    UNION { IF e.exc # "none" THEN {[q |-> e.q, exc |-> e.exc, resp |-> NoReply]}
            ELSE LET saved == [e.q EXCEPT !.access_token = TRUE, !.new_token = FALSE]
                     afters == IF e.q.refresh_token THEN {e.q, saved} ELSE {e.q}
                 IN  {[q |-> qq, exc |-> "none", resp |-> r] : qq \in afters, r \in Responses}
                     \cup {[q |-> qq, exc |-> x, resp |-> NoReply] :
                              qq \in afters,
                              x \in {"UnauthorizedError", "RateLimitError", "AuthClientError"}}
          : e \in establish_access(q) }

\* address_new_oauth2_token(): False without a new token; otherwise the
\* new credentials go to the callback, if there is one, and only then is
\* new_token cleared
address_new_oauth2_token(b) ==
    IF ~b.qba.new_token THEN [ret |-> FALSE, qbs |-> b]
    ELSE [ret |-> TRUE, qbs |-> IF b.ntcbf THEN [b EXCEPT !.qba.new_token = FALSE] ELSE b]

\* try: error_message = response.json()  except: error_message = response.text
error_message(r) == IF r.parseable THEN <<"json", r.body>> ELSE <<"text", r.body>>

\* lines 358-381 of _basic_call: what becomes of the response
surface(accept, r) ==
    IF r.status_code \in {200}
    THEN CASE accept = "application/json" ->
                 IF r.parseable THEN [kind |-> "return", value |-> <<"rj", r.body>>]
                 ELSE [kind |-> "raise", value |-> <<"JSONDecodeError", "text", r.body>>]
           [] accept = "application/pdf" -> [kind |-> "return", value |-> <<"response", r.body>>]
           [] OTHER -> [kind |-> "return", value |-> <<"response.text", r.body>>]
    ELSE [kind |-> "raise", value |-> <<"ConnectionError">> \o error_message(r)]

\* one run of the function _basic_call on QBS b: the QBS afterwards and
\* whether the run returned, raised, or called _basic_call again (line
\* 351).  QBAuth2 has no attribute refresh_failure, so an exception of
\* establish_access() is raised again at once.
basic_call(b, accept) ==
    UNION { IF e.exc # "none"
            THEN {[qbs |-> [b EXCEPT !.qba = e.q], reached |-> FALSE, kind |-> "raise",
                   value |-> <<e.exc>>]}
            ELSE UNION {
                 IF o.exc # "none"
                 THEN {[qbs |-> [b EXCEPT !.qba = o.q], reached |-> FALSE, kind |-> "raise",
                        value |-> <<o.exc>>]}
                 ELSE LET b1 == [b EXCEPT !.qba = o.q, !.last_response = o.resp]
                          a == IF b1.oauth_version = 2 THEN address_new_oauth2_token(b1)
                               ELSE [ret |-> FALSE, qbs |-> b1]
                      IN  IF ~o.resp.intuit_tid
                          THEN {[qbs |-> b1, reached |-> TRUE, kind |-> "raise",
                                 value |-> <<"KeyError">>]}
                          ELSE IF a.ret
                          THEN {[qbs |-> a.qbs, reached |-> TRUE, kind |-> "recurse",
                                 value |-> <<>>]}
                          ELSE {[qbs |-> b1, reached |-> TRUE,
                                 kind |-> surface(accept, o.resp).kind,
                                 value |-> surface(accept, o.resp).value]}
                 : o \in request(e.q) }
          : e \in establish_access(b.qba) }

\* original_data: None, unless data is a string (lines 222-225)
original_data(data) == IF data = "str" THEN data ELSE "None"

\* the arguments of the call at line 351: request_type, url and the copy
\* of params are the ones received (the url decides the headers), data is
\* original_data
reissued(args) == [args EXCEPT !.data = original_data(args.data)]

\* a call of a function decorated with retry(max_tries, delay_secs), with
\* or without the keywords 'tries' and 'delay'
RetryCall(max_tries, delay_secs, kw_tries, kw_delay) ==
    /\ frames = <<>>
    /\ frames' = <<NewFrame("f", max_tries, delay_secs, kw_tries, kw_delay, "none")>>
    /\ done' = NoCall
    /\ UNCHANGED <<qbs, built>>
    /\ UNCHANGED <<ehVars, authVars, opsVars, qboVars>>

\* inner() calls the decorated function, which returns
Invoke(fs) == [fs EXCEPT ![Len(fs)].invocations = @ + 1]
RetryReturn ==
    /\ frames # <<>>
    /\ frames[Len(frames)].fn = "f"
    /\ frames[Len(frames)].pc = "call"
    /\ LET fs == Invoke(frames)
           r == Returns(fs, <<"value", fs[Len(fs)].invocations>>)
       IN  frames' = r.frames /\ done' = r.done
    /\ UNCHANGED <<qbs, built>>
    /\ UNCHANGED <<ehVars, authVars, opsVars, qboVars>>

\* inner() calls the decorated function, which raises
RetryRaise ==
    /\ frames # <<>>
    /\ frames[Len(frames)].fn = "f"
    /\ frames[Len(frames)].pc = "call"
    /\ LET fs == Invoke(frames)
           r == Raised(fs, <<"Exception", fs[Len(fs)].invocations>>)
       IN  frames' = r.frames /\ done' = r.done
    /\ UNCHANGED <<qbs, built>>
    /\ UNCHANGED <<ehVars, authVars, opsVars, qboVars>>

\* a method of QBS calls self._basic_call(request_type, url, data); the
\* methods pass neither 'tries' nor 'delay'
BasicCall(accept, data) ==
    /\ frames = <<>>
    /\ frames' = <<NewFrame("_basic_call", default_max_tries, default_delay_secs,
                            NoKw, NoKw, [accept |-> accept, data |-> data])>>
    /\ done' = NoCall
    /\ UNCHANGED <<qbs, built>>
    /\ UNCHANGED <<ehVars, authVars, opsVars, qboVars>>

\* inner() runs _basic_call once
BasicCallRun ==
    /\ frames # <<>>
    /\ frames[Len(frames)].fn = "_basic_call"
    /\ frames[Len(frames)].pc = "call"
    /\ \E o \in basic_call(qbs, frames[Len(frames)].args.accept) :
          LET fs == Invoke(frames)
              deep == Len(fs) > MaxDepth
              r == CASE o.kind = "return" -> Returns(fs, o.value)
                     [] o.kind = "raise" -> Raised(fs, o.value)
                     [] o.kind = "recurse" /\ deep -> Raised(fs, <<"RecursionError">>)
                     [] OTHER ->
                          [frames |-> Append([fs EXCEPT ![Len(fs)].pc = "inner"],
                                             NewFrame("_basic_call", default_max_tries,
                                                      default_delay_secs, NoKw, NoKw,
                                                      reissued(fs[Len(fs)].args))),
                           done |-> NoCall]
              outcome == IF o.kind = "recurse" THEN <<"recurse">> ELSE <<o.kind>> \o o.value
          IN  /\ frames' = r.frames
              /\ done' = r.done
              /\ qbs' = IF o.reached THEN [o.qbs EXCEPT !.last_outcome = outcome]
                        ELSE o.qbs
    /\ UNCHANGED built
    /\ UNCHANGED <<ehVars, authVars, opsVars, qboVars>>

\* the parameters of QBAuth2.__init__ after self (qba.py line 63), and the
\* arguments of the call QBAuth2(...) in QBS._setup (lines 157-166)
QBAuth2Parameters == <<"client_code", "modifier", "verbosity", "env">>
SetupPositional == 2
SetupKeywords == {"realm_id", "refresh_token", "access_token", "callback_url",
                  "verbosity", "env"}
\* Python binds the arguments before it runs the body of __init__: a keyword
\* that names no parameter, or one that names a parameter already filled
\* by position, is a TypeError
Binds(parameters, positional, keywords) ==
    /\ positional <= Len(parameters)
    /\ \A k \in keywords :
          \E i \in 1 .. Len(parameters) : parameters[i] = k /\ i > positional

\* QBS(...): the check of the credentials (lines 110-120), then _setup(),
\* which calls QBAuth2(...)
QBS(access_token_secret, client_id, client_secret) ==
    LET given == [access_token_secret |-> access_token_secret, client_id |-> client_id,
                  client_secret |-> client_secret]
        oauth_version == IF access_token_secret THEN 1
                         ELSE IF client_id /\ client_secret THEN 2 ELSE 0
    IN  IF oauth_version = 0
        THEN [raised |-> "ValueError", oauth_version |-> 0, qba |-> FALSE, created |-> 0,
              store_reads |-> 0, given |-> given]
        ELSE IF ~Binds(QBAuth2Parameters, SetupPositional, SetupKeywords)
        THEN [raised |-> "TypeError", oauth_version |-> oauth_version, qba |-> FALSE,
              created |-> 0, store_reads |-> 0, given |-> given]
        ELSE [raised |-> "none", oauth_version |-> oauth_version, qba |-> TRUE,
              created |-> 1, store_reads |-> 1, given |-> given]

NewQBS ==
    \E access_token_secret \in BOOLEAN, client_id \in BOOLEAN, client_secret \in BOOLEAN :
        /\ frames = <<>>
        /\ built' = QBS(access_token_secret, client_id, client_secret)
        /\ UNCHANGED <<qbs, frames, done>>
        /\ UNCHANGED <<ehVars, authVars, opsVars, qboVars>>

\* a QBS whose _setup() has run with a QBAuth2 that took its arguments:
\* with or without a callback for new tokens, with or without a refresh
\* token and an access token that has not expired
QBSInit ==
    /\ \E oauth_version \in {1, 2}, ntcbf \in BOOLEAN, vb8 \in BOOLEAN,
          refresh_token \in BOOLEAN, access_token \in BOOLEAN :
          qbs = [oauth_version |-> oauth_version, ntcbf |-> ntcbf,
                 qba |-> [vb8 |-> vb8, new_token |-> FALSE, has_access |-> FALSE,
                          refresh_token |-> refresh_token,
                          access_token |-> refresh_token /\ access_token],
                 last_response |-> NoReply, last_outcome |-> <<>>]
    /\ frames = <<>>
    /\ done = NoCall
    /\ built = NoBuild
    /\ EHFresh
    /\ AuthQuiet
    /\ OpsQuiet
    /\ QBOQuiet

QBSNext ==
    \/ \E accept \in Accepts, data \in DataKinds : BasicCall(accept, data)
    \/ BasicCallRun
SpecQBS == QBSInit /\ [][QBSNext]_vars

\* the decorator on any function, and QBS(...)
RetryInit == EHFresh /\ AuthQuiet /\ QBSQuiet
RetryNext ==
    \/ \E n \in Tries, d \in Delays, kt \in {NoKw} \cup Tries, kd \in {NoKw, 1} :
          RetryCall(n, d, kt, kd)
    \/ RetryReturn
    \/ RetryRaise
    \/ NewQBS
SpecRetry == RetryInit /\ [][RetryNext]_vars

(***************************************************************************)
(* The operations of QBS (qbs.py): create, read, update, delete, batch,    *)
(* report, upload, send and query.  'wire' is the sequence of HTTP         *)
(* requests that the operation in hand has sent through _basic_call, 'op'  *)
(* the operation and how it ended, 'api' the company the QBS talks to:     *)
(* the cached touchless_mode, environment.is_production(), the number of   *)
(* objects the queried table holds and how the server reads a query with   *)
(* more than one STARTPOSITION clause.                                     *)
(***************************************************************************)
MutatingOps == {"create", "update", "delete", "batch", "upload", "send"}
Readings == {"first", "last", "error"}
Debuggers == {"continue", "quit", "missing"}
PerPages == {1, 2}
\* start_position=None
NoStart == -1
StartPositions == {NoStart, 1, 2}

Request(method, path, body) == [method |-> method, path |-> path, body |-> body]

\* touchless_test(): TRUE when it raises
touchless_test_production_only(a) == a.touchless /\ a.production
touchless_test(a) == a.touchless /\ ~a.production

\* what touchless_test() raises: 'import ipdb; ipdb.set_trace()' stands before
\* 'raise Exception(error)', so a missing ipdb or a debugger that is quit
\* raises in its place
touchless_raise(debugger) ==
    CASE debugger = "missing" -> "ModuleNotFoundError"
      [] debugger = "quit" -> "BdbQuit"
      [] OTHER -> "Touchless Failure"

\* the answers to the attempts of one _basic_call under @retry(): TRUE is a
\* response with status 200; every attempt but the last has failed, and a
\* failing last attempt is attempt number max_tries
BasicCallRuns ==
    {r \in UNION {[1..n -> BOOLEAN] : n \in 1..default_max_tries} :
        /\ \A i \in 1..(Len(r) - 1) : ~r[i]
        /\ r[Len(r)] \/ Len(r) = default_max_tries}

\* the requests that one _basic_call sends
sent(req, run) == [i \in 1..Len(run) |-> req]

OpEnded(name, result, value) ==
    [NoOp EXCEPT !.name = name, !.pc = "done", !.result = result, !.value = value]

\* create(), update(), delete(), batch(), upload() and send(): the checks of
\* the arguments, for delete(object_id=...) the read() of the object, then
\* touchless_test() and then the POST
Mutate(name, with_params, object_id, object_dict, readable, debugger, read_run, run) ==
    /\ op.pc # "loop"
    /\ LET not_implemented == name \in {"update", "delete"} /\ with_params
           reads == name = "delete" /\ object_id /\ ~object_dict
           read_req == Request("GET", "object/id", <<>>)
           read_sent == IF reads /\ ~not_implemented THEN sent(read_req, read_run) ELSE <<>>
           read_failed == reads /\ ~read_run[Len(read_run)]
           no_dict == name = "delete" /\ ~object_id /\ ~object_dict
           path == CASE name = "batch" -> "batch"
                     [] name = "upload" -> "upload"
                     [] name = "send" -> "object/id/send"
                     [] OTHER -> "object"
           req == Request("POST", path, <<>>)
       IN  IF not_implemented
           THEN /\ op' = OpEnded(name, "raised", <<"NotImplementedError">>)
                /\ wire' = <<>>
           ELSE IF name = "upload" /\ ~readable
           THEN /\ op' = OpEnded(name, "raised", <<"Exception">>)
                /\ wire' = <<>>
           ELSE IF read_failed
           THEN /\ op' = OpEnded(name, "raised", <<"ConnectionError">>)
                /\ wire' = read_sent
           ELSE IF no_dict
           THEN /\ op' = OpEnded(name, "raised", <<"TypeError">>)
                /\ wire' = <<>>
           ELSE IF touchless_test(api)
           THEN /\ op' = OpEnded(name, "raised", <<touchless_raise(debugger)>>)
                /\ wire' = read_sent
           ELSE /\ op' = IF run[Len(run)]
                         THEN OpEnded(name, "returned", <<"json">>)
                         ELSE OpEnded(name, "raised", <<"ConnectionError">>)
                /\ wire' = read_sent \o sent(req, run)
    /\ UNCHANGED <<api, ehVars, authVars, qbsVars, qboVars>>

\* read(): NotImplementedError when params are given, else one GET
Read(with_params, run) ==
    /\ op.pc # "loop"
    /\ IF with_params
       THEN /\ op' = OpEnded("read", "raised", <<"NotImplementedError">>)
            /\ wire' = <<>>
       ELSE /\ op' = IF run[Len(run)]
                     THEN OpEnded("read", "returned", <<"json">>)
                     ELSE OpEnded("read", "raised", <<"ConnectionError">>)
            /\ wire' = sent(Request("GET", "object/id", <<>>), run)
    /\ UNCHANGED <<api, ehVars, authVars, qbsVars, qboVars>>

\* report(): one GET; an answer that is empty or has no "Header" raises
Report(with_header, run) ==
    /\ op.pc # "loop"
    /\ op' = IF ~run[Len(run)]
             THEN OpEnded("report", "raised", <<"ConnectionError">>)
             ELSE IF ~with_header
             THEN OpEnded("report", "raised", <<"Exception">>)
             ELSE OpEnded("report", "returned", <<"json">>)
    /\ wire' = sent(Request("GET", "reports", <<>>), run)
    /\ UNCHANGED <<api, ehVars, authVars, qbsVars, qboVars>>

(***************************************************************************)
(* query().  A query string is the sequence of its clauses; slicing it at  *)
(* base_len and appending a clause are what query[:base_len] + "..." does. *)
(***************************************************************************)
Clause(word, n) == <<word, n>>

\* the query string before the loop
first_query(count_only, start_position, per_page) ==
    <<Clause(IF count_only THEN "SELECT COUNT(*)" ELSE "SELECT *", 0)>>
    \o (IF count_only THEN <<>> ELSE <<Clause("MAXRESULTS", per_page)>>)
    \o (IF start_position # NoStart THEN <<Clause("STARTPOSITION", start_position)>> ELSE <<>>)

\* base_len = len(query), taken after the STARTPOSITION clause was appended
base_len(count_only, start_position, per_page) ==
    Len(first_query(count_only, start_position, per_page))

\* query = query[:base_len] + f" STARTPOSITION {start_position + per_page}"
next_query(query, baselen, start_position, per_page) ==
    SubSeq(query, 1, baselen) \o <<Clause("STARTPOSITION", start_position + per_page)>>

StartClauses(query) == SelectSeq(query, LAMBDA c : c[1] = "STARTPOSITION")
LimitClauses(query) == SelectSeq(query, LAMBDA c : c[1] = "MAXRESULTS")

\* the server: the table holds the objects 1..total in this order; a query
\* is answered with the objects from its start position on, at most
\* MAXRESULTS of them; startPosition and maxResults are null on an empty page
serve(a, query) ==
    LET starts == StartClauses(query)
        limits == LimitClauses(query)
        start == IF starts = <<>> THEN 1
                 ELSE IF a.reading = "first" THEN starts[1][2]
                 ELSE starts[Len(starts)][2]
        limit == IF limits = <<>> THEN a.total ELSE limits[1][2]
        upto == IF start + limit - 1 < a.total THEN start + limit - 1 ELSE a.total
        objs == IF upto < start THEN <<>> ELSE [i \in 1..(upto - start + 1) |-> start + i - 1]
    IN  IF Len(starts) > 1 /\ a.reading = "error"
        THEN [status |-> 400, objs |-> <<>>, startPosition |-> NoStart,
              maxResults |-> NoStart, totalCount |-> 0]
        ELSE [status |-> 200, objs |-> objs,
              startPosition |-> IF objs = <<>> THEN NoStart ELSE start,
              maxResults |-> IF objs = <<>> THEN NoStart ELSE Len(objs),
              totalCount |-> Len(objs)]

\* query() up to the loop
Query(queriable, count_only, start_position, per_page) ==
    /\ op.pc # "loop"
    /\ wire' = <<>>
    /\ op' = IF ~queriable
             THEN OpEnded("query", "raised", <<"Exception">>)
             ELSE [NoOp EXCEPT !.name = "query", !.pc = "loop",
                               !.count_only = count_only, !.per_page = per_page,
                               !.query = first_query(count_only, start_position, per_page),
                               !.base_len = base_len(count_only, start_position, per_page)]
    /\ UNCHANGED <<api, ehVars, authVars, qbsVars, qboVars>>

\* one round of the loop of query()
QueryPage ==
    /\ op.name = "query"
    /\ op.pc = "loop"
    /\ Len(wire) < MaxRequests
    /\ LET req == Request("POST", "query", op.query)
           resp == serve(api, op.query)
           start_position == IF resp.startPosition = NoStart THEN 0 ELSE resp.startPosition
           maxResults_ == IF resp.maxResults = NoStart THEN 0 ELSE resp.maxResults
           all_objs == op.all_objs \o resp.objs
       IN  IF resp.status # 200
           THEN /\ wire' = wire \o [i \in 1..default_max_tries |-> req]
                /\ op' = [op EXCEPT !.pc = "done", !.result = "raised",
                                    !.value = <<"ConnectionError">>]
           ELSE /\ wire' = Append(wire, req)
                /\ op' = IF op.count_only
                         THEN [op EXCEPT !.pc = "done", !.result = "returned",
                                         !.value = <<resp.totalCount>>]
                         ELSE [op EXCEPT
                                 !.all_objs = all_objs,
                                 !.query = next_query(op.query, op.base_len,
                                                      start_position, op.per_page),
                                 !.pc = IF maxResults_ < op.per_page THEN "done" ELSE "loop",
                                 !.result = IF maxResults_ < op.per_page
                                            THEN "returned" ELSE "none",
                                 !.value = IF maxResults_ < op.per_page
                                           THEN all_objs ELSE <<>>]
    /\ UNCHANGED <<api, ehVars, authVars, qbsVars, qboVars>>

OpsInit ==
    /\ api \in [touchless : BOOLEAN, production : BOOLEAN, total : 0..MaxObjects,
                reading : Readings]
    /\ op = NoOp
    /\ wire = <<>>
    /\ EHFresh
    /\ AuthQuiet
    /\ QBSIdle
    /\ QBOQuiet

OpsNext ==
    \/ \E name \in MutatingOps, with_params, object_id, object_dict, readable \in BOOLEAN,
          debugger \in Debuggers, read_run, run \in BasicCallRuns :
          Mutate(name, with_params, object_id, object_dict, readable, debugger, read_run, run)
    \/ \E with_params \in BOOLEAN, run \in BasicCallRuns : Read(with_params, run)
    \/ \E with_header \in BOOLEAN, run \in BasicCallRuns : Report(with_header, run)
    \/ \E queriable, count_only \in BOOLEAN, start_position \in StartPositions,
          per_page \in PerPages : Query(queriable, count_only, start_position, per_page)
    \/ QueryPage

SpecOps == OpsInit /\ [][OpsNext]_vars

(***************************************************************************)
(* QBOAuth (qbo_auth.py).  A bucket is named by its client code; "" is no  *)
(* substitute_client_code, "None" the value None where a bucket is         *)
(* expected, 0 an absent credential.  The token endpoint hands out the     *)
(* tokens RefreshedToken on a refresh and AuthorizedToken, for the company *)
(* AuthorizedRealm, on an authorization from the terminal.                 *)
(***************************************************************************)
BucketSetters == {"replace", "merge"}
Terminals == {"quiet", "authorized", "refused"}
StoredTokens == {0, 1}
StoredCompanies == {0, 7}
RefreshedToken == 2
AuthorizedToken == 3
AuthorizedRealm == 9

\* _get_effective_credentials_bucket(client_code): the bucket it returns and
\* the _effective_client_code it leaves; the call of itself at line 107 is
\* not returned, so only the innermost call returns a bucket
RECURSIVE get_effective_credentials_bucket(_, _)
get_effective_credentials_bucket(bs, client_code) ==
    LET substitute_client_code == bs[client_code].substitute_client_code
    IN  IF substitute_client_code = ""
        THEN [bucket |-> client_code, effective_client_code |-> client_code]
        ELSE [bucket |-> "None",
              effective_client_code |->
                  get_effective_credentials_bucket(bs, substitute_client_code)
                      .effective_client_code]

\* _set_client_credentials_from_bucket()
set_client_credentials_from_bucket(q, bs) ==
    [q EXCEPT !.access_token = bs[q.fo_darkonim].access_token,
              !.refresh_token = bs[q.fo_darkonim].refresh_token,
              !.realm_id = bs[q.fo_darkonim].company_id]

\* _save_client_credentials() writes when realm_id and both tokens are truthy
saves(q) == q.realm_id # 0 /\ q.access_token # 0 /\ q.refresh_token # 0

\* self._fo_darkonim.client_credentials = {'access_token': ..,
\* 'refresh_token': .., 'realm_id': .., 'rt_acquired_at': .., 'expires_at': ..}
save_client_credentials(q, bs, setter) ==
    IF ~saves(q) THEN bs
    ELSE [bs EXCEPT ![q.fo_darkonim] =
            [(IF setter = "merge" THEN @ ELSE NoCredentials) EXCEPT
                !.access_token = q.access_token,
                !.refresh_token = q.refresh_token,
                !.realm_id = q.realm_id]]

\* _check_access(): [q |-> the object after it, has |-> what it returns,
\* buckets |-> the buckets after it]
check_access(q, bs, setter, refresh_ok) ==
    IF q.refresh_token # 0 /\ q.access_token # 0
    THEN [q |-> q, has |-> TRUE, buckets |-> bs]
    ELSE IF q.refresh_token = 0
    THEN [q |-> q, has |-> FALSE, buckets |-> bs]
    ELSE IF ~refresh_ok
    THEN [q |-> q, has |-> FALSE, buckets |-> bs]
    ELSE LET session == [q.session EXCEPT !.access_token = RefreshedToken,
                                          !.refresh_token = RefreshedToken]
             r == [q EXCEPT !.session = session,
                            !.access_token = RefreshedToken,
                            !.refresh_token = RefreshedToken]
         IN  [q |-> [r EXCEPT !.wrote = saves(r)], has |-> TRUE,
              buckets |-> save_client_credentials(r, bs, setter)]

\* _handle_authorization_from_terminal(): get_bearer_token() fills the
\* session, _set_client_credentials_from_session() copies it
handle_authorization_from_terminal(q) ==
    LET session == [realm_id |-> AuthorizedRealm, access_token |-> AuthorizedToken,
                    refresh_token |-> AuthorizedToken]
    IN  [q EXCEPT !.session = session, !.realm_id = session.realm_id,
                  !.access_token = session.access_token,
                  !.refresh_token = session.refresh_token]

\* QBOAuth(client_code); 'terminal' is "quiet" when vb < 8, else whether the
\* token endpoint accepts the pasted callback URL
NewQBOAuth(client_code, refresh_ok, terminal) ==
    LET got == get_effective_credentials_bucket(buckets, client_code)
        q0 == [NoQBOAuth EXCEPT !.client_code = client_code,
                                !.effective_client_code = got.effective_client_code,
                                !.fo_darkonim = got.bucket,
                                !.called = "__init__"]
        q1 == set_client_credentials_from_bucket(q0, buckets)
        q2 == [q1 EXCEPT !.session = [realm_id |-> q1.realm_id,
                                      access_token |-> q1.access_token,
                                      refresh_token |-> q1.refresh_token]]
        checked == check_access(q2, buckets, bucket_setter, refresh_ok)
        q3 == [checked.q EXCEPT !.has_access = checked.has]
    IN  /\ IF got.bucket = "None"
           THEN /\ qboauth' = [q0 EXCEPT !.result = "raised", !.returned = "AttributeError"]
                /\ UNCHANGED buckets
           ELSE /\ buckets' = checked.buckets
                /\ qboauth' =
                     IF checked.has \/ terminal = "quiet"
                     THEN [q3 EXCEPT !.result = "constructed"]
                     ELSE IF terminal = "refused"
                     THEN [q3 EXCEPT !.result = "raised", !.returned = "AuthClientError"]
                     ELSE [handle_authorization_from_terminal(q3) EXCEPT
                             !.result = "constructed"]
        /\ UNCHANGED <<bucket_setter, ehVars, authVars, qbsVars, opsVars>>

\* a call of _get_effective_credentials_bucket(client_code) on the object
GetEffectiveCredentialsBucket(client_code) ==
    /\ qboauth.result = "constructed"
    /\ LET got == get_effective_credentials_bucket(buckets, client_code)
       IN  qboauth' = [qboauth EXCEPT
                          !.called = "_get_effective_credentials_bucket",
                          !.effective_client_code = got.effective_client_code,
                          !.returned = got.bucket,
                          !.wrote = FALSE]
    /\ UNCHANGED <<buckets, bucket_setter, ehVars, authVars, qbsVars, opsVars>>

\* a call of _handle_authorization_from_terminal() that the endpoint accepts
HandleAuthorizationFromTerminal ==
    /\ qboauth.result = "constructed"
    /\ qboauth' = [handle_authorization_from_terminal(qboauth) EXCEPT
                      !.called = "_handle_authorization_from_terminal",
                      !.returned = "", !.wrote = FALSE]
    /\ UNCHANGED <<buckets, bucket_setter, ehVars, authVars, qbsVars, opsVars>>

\* a call of _save_client_credentials()
SaveClientCredentials ==
    /\ qboauth.result = "constructed"
    /\ buckets' = save_client_credentials(qboauth, buckets, bucket_setter)
    /\ qboauth' = [qboauth EXCEPT !.called = "_save_client_credentials",
                                  !.returned = "", !.wrote = saves(qboauth)]
    /\ UNCHANGED <<bucket_setter, ehVars, authVars, qbsVars, opsVars>>

\* a call of _set_client_credentials_from_bucket()
SetClientCredentialsFromBucket ==
    /\ qboauth.result = "constructed"
    /\ qboauth' = [set_client_credentials_from_bucket(qboauth, buckets) EXCEPT
                      !.called = "_set_client_credentials_from_bucket",
                      !.returned = "", !.wrote = FALSE]
    /\ UNCHANGED <<buckets, bucket_setter, ehVars, authVars, qbsVars, opsVars>>

\* the substitute client codes form chains without a cycle, here a chain
\* along a, b, c; the buckets hold the same stored credentials
QBOAuthInit ==
    /\ qboauth = NoQBOAuth
    /\ bucket_setter \in BucketSetters
    /\ \E sa \in {"", "b", "c"}, sb \in {"", "c"}, at, rt \in StoredTokens,
          company \in StoredCompanies :
          buckets = [c \in ClientCodes |->
                       [NoCredentials EXCEPT
                          !.substitute_client_code =
                              IF c = "a" THEN sa ELSE IF c = "b" THEN sb ELSE "",
                          !.access_token = at,
                          !.refresh_token = rt,
                          !.company_id = company]]
    /\ EHFresh
    /\ AuthQuiet
    /\ QBSIdle
    /\ OpsQuiet

QBOAuthNext ==
    \/ \E client_code \in ClientCodes, refresh_ok \in BOOLEAN, terminal \in Terminals :
          NewQBOAuth(client_code, refresh_ok, terminal)
    \/ \E client_code \in ClientCodes : GetEffectiveCredentialsBucket(client_code)
    \/ HandleAuthorizationFromTerminal
    \/ SaveClientCredentials
    \/ SetClientCredentialsFromBucket

SpecQBOAuth == QBOAuthInit /\ [][QBOAuthNext]_vars

(***************************************************************************)
(* Properties of resolve().                                                *)
(***************************************************************************)
Range(f) == { f[i] : i \in DOMAIN f }
Rows == 1..Len(error_df)
HasCode(i, code) == error_df[i].code = code
HasPhrase(i, phrase) == Contains(fillna(error_df[i].Detail), phrase)
Resolved == pc = "resolved"
Given == pc # "new"

\* the actions of resolve() that its outcome shows
ActionsTaken ==
    (IF Call("restore_qbo_cache", 40, TRUE) \in Range(trace) \/ raised.type = "CachingError"
     THEN {"caching"} ELSE {})
    \cup (IF raised.type = "SuspectedTransientError" THEN {"transient"} ELSE {})
    \cup (IF Call("create_disconnection_ticket", 0, TRUE) \in Range(trace)
          THEN {"authorization"} ELSE {})
    \cup (IF raised.type = "APIError" THEN {"feature"} ELSE {})

HigherThanFeature ==
    has_caching_errors \/ has_suspected_transient_errors \/ has_authorization_errors

\* C2: one resolve() takes at most one of the four actions, and it is the
\* action of the first predicate that holds in the order caching,
\* suspected-transient, authorization, feature-permission.
C2_FirstMatchWins ==
    Resolved =>
        /\ Cardinality(ActionsTaken) <= 1
        /\ ActionsTaken =
             IF has_caching_errors THEN {"caching"}
             ELSE IF has_suspected_transient_errors THEN {"transient"}
             ELSE IF has_authorization_errors THEN {"authorization"}
             ELSE IF has_feature_permission_errors THEN {"feature"}
             ELSE {}

\* a response for which the caching, the authorization and the
\* feature-permission predicate hold at once, resolved as caching
C2_Witness ==
    /\ Resolved
    /\ has_caching_errors /\ has_authorization_errors /\ has_feature_permission_errors
    /\ ActionsTaken = {"caching"}

C4_PhraseOfThe610Fault ==
    (Given /\ ~ \E i \in Rows : HasCode(i, "5010")) =>
        /\ has_caching_errors <=> \E i \in Rows : HasCode(i, "610") /\ HasPhrase(i, DELETED_PHRASE)
        /\ (Resolved /\ ~ \E i \in Rows : HasCode(i, "610") /\ HasPhrase(i, DELETED_PHRASE))
              => branch # "caching"

\* C5: with no caching errors, has_suspected_transient_errors is true iff
\* some '6000' fault has the wait phrase in its own detail; then resolve()
\* raises SuspectedTransientError, and otherwise it raises neither that nor
\* CachingError.
C5_TransientPhraseOfThe6000Fault ==
    (Given /\ ~has_caching_errors) =>
        LET hit == \E i \in Rows : HasCode(i, "6000") /\ HasPhrase(i, WAIT_PHRASE)
        IN  /\ has_suspected_transient_errors <=> hit
            /\ Resolved =>
                 IF hit THEN raised.type = "SuspectedTransientError"
                 ELSE raised.type \notin {"SuspectedTransientError", "CachingError"}

\* a '6000' without the phrase before a '6000' with it
C5_Witness ==
    /\ Resolved
    /\ Len(error_df) = 2
    /\ HasCode(1, "6000") /\ ~HasPhrase(1, WAIT_PHRASE)
    /\ HasCode(2, "6000") /\ HasPhrase(2, WAIT_PHRASE)
    /\ raised.type = "SuspectedTransientError"

\* C6: the caching branch calls restore_qbo_cache once, with days_ago=40
\* and ignore_cdc_load=True, and then raises CachingError with the
\* Message, code and Detail of the first '5010' or '610' row.
C6_RepairThenCachingError ==
    (Resolved /\ branch = "caching") =>
        /\ trace = <<Call("restore_qbo_cache", 40, TRUE), Raise("CachingError")>>
        /\ \E i \in Rows :
             /\ error_df[i].code \in {"5010", "610"}
             /\ \A j \in 1..(i - 1) : error_df[j].code \notin {"5010", "610"}
             /\ raised = Exc("CachingError", error_df[i].Detail, error_df[i].Message,
                             error_df[i].code, "")

\* a '610' row before a '5010' row: the error raised is the '610'
C6_Witness ==
    /\ Resolved /\ branch = "caching"
    /\ Len(error_df) = 2
    /\ HasCode(1, "610") /\ HasCode(2, "5010")
    /\ raised.code = "610"
    /\ Len(trace) = 2

C8_TicketOnceNoException ==
    ( /\ Resolved
      /\ response_data.type = "dict"
      /\ response_data.x_error_reason = "user_not_in_realm"
      /\ ~has_caching_errors /\ ~has_suspected_transient_errors ) =>
        /\ trace = <<Call("create_disconnection_ticket", 0, TRUE)>>
        /\ raised = NoExc

\* the same response has status 400 and a '5020' fault
C8_Witness ==
    /\ Resolved
    /\ response_data.x_error_reason = "user_not_in_realm"
    /\ has_feature_permission_errors
    /\ trace = <<TicketCall>>

\* C9: resolve() raises the feature-permission APIError iff no
\* higher-priority predicate holds, the status is 400 and some fault has
\* code '5020'; the slug follows the URL; with another status (or no
\* response object) a '5020' fault raises nothing.
C9_FeaturePermission ==
    Resolved =>
        LET has5020 == \E i \in Rows : HasCode(i, "5020")
            is400 == response.present /\ response.status_code = 400
        IN  /\ raised.type = "APIError" <=> (~HigherThanFeature /\ is400 /\ has5020)
            /\ raised.type = "APIError" =>
                 raised.error_slug =
                     IF \E k \in 1..Len(response.url) : response.url[k] = "BudgetVsActuals"
                     THEN "qbo-api-error-permission-denied-bva"
                     ELSE "qbo-api-error-permission-denied-unspecified"
            /\ (~HigherThanFeature /\ has5020 /\ ~is400) => raised = NoExc

\* the denial of a Budget-vs-Actuals report
C9_Witness ==
    /\ Resolved
    /\ raised.type = "APIError"
    /\ raised.error_slug = "qbo-api-error-permission-denied-bva"
    /\ trace = <<QueryCall, Raise("APIError")>>

\* C10: when none of the four predicates holds, resolve() returns normally,
\* calls no collaborator and leaves response, response_data, faults and
\* error_df unchanged.
C10_NoMatchNoAction ==
    [][ ( /\ pc = "constructed" /\ pc' = "resolved"
          /\ ~HigherThanFeature /\ ~has_feature_permission_errors ) =>
            /\ raised' = NoExc
            /\ trace' = <<>>
            /\ UNCHANGED <<response, response_data, faults, error_df, seen_transient>> ]_vars

\* a response with faults, none of them of a class resolve() acts on
C10_Witness ==
    /\ Resolved
    /\ Len(error_df) > 0
    /\ ~HigherThanFeature /\ ~has_feature_permission_errors
    /\ trace = <<>> /\ raised = NoExc

(***************************************************************************)
(* Properties of refresh().                                                *)
(***************************************************************************)
\* process s runs refresh() once in this step
RefreshRuns(s) == qba[s].pc = "refresh" /\ qba'[s] # qba[s]

\* the tokens process s holds in memory and in its AuthClient session
TokensOf(q) == <<q.access_token, q.refresh_token, q.expires_at, q.session>>

\* C1: when auth_client_error_retry_count is 0 and the locally held
\* expires_at is set and not earlier than the current time, refresh()
\* returns normally without calling the provider's token-refresh endpoint:
\* nothing is raised, auth_client_error_retry_count becomes exactly 1, and
\* the in-memory tokens, the AuthClient session tokens and the TokenStore
\* contents are what they were.
C1_FalsePositiveSkip ==
    [][\A s \in Sessions :
          ( /\ RefreshRuns(s)
            /\ qba[s].auth_client_error_retry_count = 0
            /\ Truthy(qba[s].expires_at)
            /\ TimeOf(qba[s].expires_at) >= now )
          => /\ qba'[s].pc = "idle"
             /\ qba'[s].result = "returned"
             /\ qba'[s].exchanges = 0
             /\ provider' = provider
             /\ qba'[s].auth_client_error_retry_count = 1
             /\ TokensOf(qba'[s]) = TokensOf(qba[s])
             /\ store' = store
             /\ token_log' = token_log]_vars

\* refresh() has passed over a suspected false positive whose expires_at is
\* exactly the current time
C1_Witness ==
    \E s \in Sessions :
        /\ qba[s].pc = "idle"
        /\ qba[s].result = "returned"
        /\ qba[s].exchanges = 0
        /\ qba[s].auth_client_error_retry_count = 1
        /\ qba[s].expires_at = Str(now)
        /\ ticks > 0

(***************************************************************************)
(* Properties of fault extraction and of the status codes.                 *)
(***************************************************************************)
\* the body is a batch response
IsBatch ==
    /\ response_data.type = "dict"
    /\ "BatchItemResponse" \in response_data.keys
    /\ "Fault" \notin response_data.keys

\* the places of the batch items that have a 'Fault' wrapper
Faulting == { i \in 1..Len(response_data.items) : response_data.items[i].hasFault }

\* the rows of error_df that carry the sibling field (bId) of item i
RowsFrom(i) == SelectSeq(error_df, LAMBDA row : row.sib = response_data.items[i].sib)

RECURSIVE SumOver(_, _)
SumOver(S, f) ==
    IF S = {} THEN 0
    ELSE LET x == CHOOSE y \in S : TRUE IN f[x] + SumOver(S \ {x}, f)

\* C11: for a batch response with N items of which M have a 'Fault'
\* wrapper, get_list_of_faults returns exactly those M items in their
\* original order, and get_error_df yields one row per elementary error of
\* each of them (the row count is the sum of the lengths of Fault.Error
\* over the M items), and no row comes from an item without a wrapper.
C11_BatchFaultRows ==
    (Given /\ IsBatch) =>
        /\ Len(faults) = Cardinality(Faulting)
        /\ \A k \in 1..Len(faults) :
              /\ faults[k].sib \in Faulting
              /\ faults[k] = response_data.items[faults[k].sib]
              /\ k > 1 => faults[k - 1].sib < faults[k].sib
        /\ Len(error_df) =
              SumOver(Faulting, [i \in Faulting |-> Len(response_data.items[i].Error)])
        /\ \A i \in 1..Len(response_data.items) :
              IF i \in Faulting
              THEN /\ Len(RowsFrom(i)) = Len(response_data.items[i].Error)
                   /\ \A k \in 1..Len(RowsFrom(i)) :
                         /\ RowsFrom(i)[k].code = response_data.items[i].Error[k].code
                         /\ RowsFrom(i)[k].Detail = response_data.items[i].Error[k].Detail
              ELSE RowsFrom(i) = <<>>

\* a batch of two items: the first without a wrapper, the second with two
\* elementary errors
C11_Witness ==
    /\ Given
    /\ IsBatch
    /\ Len(response_data.items) = 2
    /\ Faulting = {2}
    /\ Len(response_data.items[2].Error) = 2
    /\ Len(error_df) = 2

\* C12 (as claimed): resolve() on a response whose status code is not in
\* SUPPORTED_STATUS_CODES takes no action: no cache repair, no
\* disconnection ticket, and no CachingError, SuspectedTransientError or
\* APIError, whatever the codes of the faults in its body.
C12_UnsupportedStatusNoAction ==
    (Resolved /\ response.present /\ response.status_code \notin SUPPORTED_STATUS_CODES)
        => (trace = <<>> /\ raised = NoExc /\ ActionsTaken = {})

(***************************************************************************)
(* Properties of QBAuth2: logged_in, request() and refresh().              *)
(***************************************************************************)
\* process s takes a step
Steps(s) == qba'[s] # qba[s]

\* in this step the token exchange of process s is accepted by the provider
Exchanged(s) ==
    /\ qba[s].pc = "refresh"
    /\ qba'[s].exchanges = qba[s].exchanges + 1
    /\ provider' # provider

\* in this step the token exchange of process s is rejected and neither
\* reconciliation fixes the session
Unfixed(s) ==
    /\ qba[s].pc = "refresh"
    /\ qba'[s].exchanges = qba[s].exchanges + 1
    /\ provider' = provider
    /\ qba'[s].result # "returned"

\* C13: logged_in is false whenever last_call_was_unauthorized is true,
\* whether or not a refresh_token is held; in particular it is false right
\* after request() raises UnauthorizedError and right after refresh() lets
\* an AuthClientError out.
C13_UnauthorizedIsLoggedOut ==
    [][\A s \in Sessions :
          /\ qba'[s].last_call_was_unauthorized = "True" => ~logged_in(qba'[s])
          /\ (qba[s].rpc # "idle" /\ qba'[s].rpc = "idle"
                /\ qba'[s].rresult = "UnauthorizedError") => ~logged_in(qba'[s])
          /\ (qba[s].pc # "idle" /\ qba'[s].pc = "idle"
                /\ qba'[s].result = "AuthClientError") => ~logged_in(qba'[s])]_vars

\* request() has raised UnauthorizedError after a refresh() whose token
\* exchange the provider accepted, with a refresh token held
C13_Witness ==
    \E s \in Sessions :
        /\ qba[s].rpc = "idle"
        /\ qba[s].rresult = "UnauthorizedError"
        /\ qba[s].result = "returned"
        /\ qba[s].exchanges = 1
        /\ qba[s].access_token = provider.access_token
        /\ qba[s].refresh_token # None
        /\ qba[s].logged_in

\* C14 (as claimed): every HTTP request of request() carries a non-empty
\* access token as bearer; when the stored access_token is absent or is
\* judged expired, a token exchange completes before the request is sent.
C14_BearerNeverEmpty ==
    \A s \in Sessions : qba[s].http > 0 => qba[s].bearer # None

\* C15: after refresh() performs a token exchange that the provider
\* accepts, auth_client_error_retry_count is 0, last_call_was_unauthorized
\* is false, the in-memory access_token and refresh_token are those of the
\* AuthClient session, and the TokenStore holds that access_token,
\* refresh_token and company_id with a new expires_at.
C15_AcceptedExchangePersists ==
    [][\A s \in Sessions :
          Exchanged(s) =>
             /\ qba'[s].auth_client_error_retry_count = 0
             /\ qba'[s].last_call_was_unauthorized = "False"
             /\ qba'[s].session.access_token = provider'.access_token
             /\ qba'[s].session.refresh_token = provider'.refresh_token
             /\ qba'[s].access_token = qba'[s].session.access_token
             /\ qba'[s].refresh_token = qba'[s].session.refresh_token
             /\ store'.access_token = qba'[s].access_token
             /\ store'.refresh_token = qba'[s].refresh_token
             /\ store'.company_id = qba'[s].realm_id
             /\ store'.expires_at = Str(now + Minutes(ACCESS_TOKEN_MINUTES))
             /\ TimeOf(store'.expires_at) > now]_vars

\* an accepted exchange that rotated the refresh token, after a rejected one
C15_Witness ==
    \E s \in Sessions :
        /\ qba[s].pc = "idle"
        /\ qba[s].result = "returned"
        /\ qba[s].exchanges = 2
        /\ qba[s].refresh_token = provider.refresh_token
        /\ qba[s].refresh_token # 1
        /\ store.refresh_token = qba[s].refresh_token
        /\ store.expires_at = qba[s].expires_at

\* C16 (as claimed): a successful refresh overwrites rt_acquired_at in the
\* TokenStore when, and only when, the refresh_token obtained differs from
\* the one held before; otherwise the stored rt_acquired_at keeps its value.
C16_RtAcquiredAtFollowsRotation ==
    [][\A s \in Sessions :
          Exchanged(s) =>
             IF qba'[s].refresh_token # qba[s].refresh_token
             THEN store'.rt_acquired_at = Str(now)
             ELSE store'.rt_acquired_at = store.rt_acquired_at]_vars

\* C17: after save_new_tokens() following a successful refresh,
\* reload_credentials() reproduces the access_token, the refresh_token and
\* the realm_id the session held.
C17_WriteThenReload ==
    [][\A s \in Sessions :
          Exchanged(s) =>
             LET reloaded == reload_credentials(qba'[s], store')
             IN  /\ reloaded.access_token = qba'[s].access_token
                 /\ reloaded.refresh_token = qba'[s].refresh_token
                 /\ reloaded.realm_id = qba'[s].realm_id
                 /\ reloaded.access_token = provider'.access_token
                 /\ reloaded.refresh_token = provider'.refresh_token
                 /\ reloaded.realm_id = qba[s].realm_id]_vars

\* the tokens of an exchange that rotated the refresh token are in the
\* store, which held no access token before
C17_Witness ==
    \E s \in Sessions :
        /\ qba[s].pc = "idle"
        /\ qba[s].result = "returned"
        /\ qba[s].exchanges = 1
        /\ qba[s].auth_client_error_retry_count = 0
        /\ qba[s].last_call_was_unauthorized = "False"
        /\ store.refresh_token = 2
        /\ store.access_token = 2
        /\ reload_credentials(qba[s], store).refresh_token = 2

\* the session holds a refresh token and a realm id
Held(q) == q.refresh_token # None /\ q.realm_id # None

C19_UnfixedRejection ==
    [][\A s \in Sessions :
          /\ Unfixed(s) =>
                /\ qba'[s].auth_client_error_retry_count
                      = qba[s].auth_client_error_retry_count + 1
                /\ qba'[s].last_call_was_unauthorized = "True"
                /\ IF qba[s].tries = 1
                   THEN qba'[s].pc = "idle" /\ qba'[s].result = "AuthClientError"
                   ELSE /\ qba'[s].pc = "refresh"
                        /\ qba'[s].tries = qba[s].tries - 1
                        /\ qba'[s].result = "none"
          /\ qba'[s].exchanges <= REFRESH_MAX_TRIES
          /\ (qba[s].pc # "idle" /\ qba'[s].result = "AuthClientError")
                => qba'[s].exchanges = REFRESH_MAX_TRIES
          /\ ( /\ qba[s].rpc \in {"establishing", "refreshing"}
               /\ qba[s].pc = "idle"
               /\ qba[s].result = "AuthClientError"
               /\ Steps(s) )
                => /\ qba'[s].rpc = "idle"
                   /\ qba'[s].rresult = "AuthClientError"
                   /\ qba'[s].http = qba[s].http]_vars

\* request() has ended with the AuthClientError of a refresh() that
\* followed its first HTTP request and made three attempts
C19_Witness ==
    \E s \in Sessions :
        /\ qba[s].rpc = "idle"
        /\ qba[s].rresult = "AuthClientError"
        /\ qba[s].http = 1
        /\ qba[s].exchanges = 3
        /\ qba[s].auth_client_error_retry_count = 3
        /\ qba[s].last_call_was_unauthorized = "True"

\* what one call of request() has left to do at most
Measure(q) ==
    IF q.rpc = "idle" THEN 0
    ELSE 32 * q.rtries
         + (CASE q.rpc = "attempt" -> 20
              [] q.rpc = "establishing" -> 14 + (IF q.pc = "refresh" THEN q.tries ELSE 0)
              [] q.rpc = "send" -> 13
              [] OTHER -> 6 + (IF q.pc = "refresh" THEN q.tries ELSE 0))

\* C20: one call of request() issues at most 4 HTTP requests; each 401 is
\* followed by a call of refresh() that is over before the next HTTP
\* request; a call that gets nothing but 401 ends with UnauthorizedError
\* (after the fourth) or with the AuthClientError of a refresh(); and every
\* step of the call brings it nearer to its end, so it never loops.
C20_BoundedUnauthorizedRetries ==
    [][\A s \in Sessions :
          /\ qba'[s].http <= REQUEST_MAX_TRIES
          /\ qba'[s].http = qba[s].http + 1
                => (qba[s].pc = "idle" /\ qba[s].refreshes = qba[s].http)
          /\ (qba[s].rpc # "idle" /\ qba'[s].rpc = "idle"
                /\ qba'[s].refreshes = qba'[s].http)
                => /\ qba'[s].rresult \in {"UnauthorizedError", "AuthClientError"}
                   /\ qba'[s].rresult = "UnauthorizedError"
                         => qba'[s].http = REQUEST_MAX_TRIES
          /\ (qba[s].rpc # "idle" /\ Steps(s)) => Measure(qba'[s]) < Measure(qba[s])
          /\ Measure(qba'[s]) >= 0]_vars

\* request() has raised UnauthorizedError after four HTTP requests, each
\* answered 401 and followed by a refresh()
C20_Witness ==
    \E s \in Sessions :
        /\ qba[s].rpc = "idle"
        /\ qba[s].rresult = "UnauthorizedError"
        /\ qba[s].http = 4
        /\ qba[s].refreshes = 4

(***************************************************************************)
(* Properties of QBS: _basic_call, the retry decorator, QBS(...).          *)
(***************************************************************************)
\* C21: _basic_call returns data only for a response with status 200; a
\* response with any other status that reaches it ends that run of
\* _basic_call with ConnectionError carrying its body (the parsed JSON when
\* it parses, the raw text otherwise).
C21_OnlyStatus200Returns ==
    /\ (done.fn = "_basic_call" /\ done.result = "returned")
          => qbs.last_response.status_code = 200
    /\ (qbs.last_response # NoReply /\ qbs.last_response.status_code # 200)
          => qbs.last_outcome
                = <<"raise", "ConnectionError">> \o error_message(qbs.last_response)

\* the call's number of tries: its 'tries' keyword, else max_tries
TriesOf(c) == IF c.kw_tries = NoKw THEN c.max_tries ELSE c.kw_tries

\* C23: the wait before the first further attempt is delay_secs, and each
\* later wait is the previous one multiplied by one constant factor greater
\* than 1.
C23_GeometricBackoff ==
    \A i \in DOMAIN frames :
        LET w == frames[i].waits
        IN  w # <<>> =>
              /\ w[1] = frames[i].delay
              /\ \A k \in 2 .. Len(w) : w[k] > w[k - 1]
              /\ \A k \in 2 .. Len(w) - 1 : w[k] * w[k] = w[k - 1] * w[k + 1]

\* C24: QBS(...) without access_token_secret and without both client_id
\* and client_secret raises ValueError with no QBAuth2 created and no
\* TokenStore access; with client_id and client_secret it is constructed
\* with OAuth version 2 and a qba that is not None.
C24_Construction ==
    built # NoBuild =>
        /\ (/\ ~built.given.access_token_secret
            /\ ~(built.given.client_id /\ built.given.client_secret))
              => /\ built.raised = "ValueError"
                 /\ built.created = 0
                 /\ built.store_reads = 0
        /\ (/\ ~built.given.access_token_secret
            /\ built.given.client_id /\ built.given.client_secret)
              => /\ built.raised = "none"
                 /\ built.oauth_version = 2
                 /\ built.qba

C25_AtRejection(s) ==
    [qba[s] EXCEPT !.exchanges = @ + 1, !.last_call_was_unauthorized = "True",
                   !.submitted = qba[s].session.refresh_token]

\* session s handles a rejected exchange in this step
C25_Rejected(s) ==
    /\ qba[s].pc = "refresh"
    /\ qba'[s].exchanges = qba[s].exchanges + 1
    /\ provider' = provider
    /\ qba'[s].last_call_was_unauthorized = "True"

\* C25: in the handling of one rejected exchange the reload from the store
\* comes first and the token log is consulted only when the reload did not
\* fix the session; when either fixes it, refresh() returns, with
\* auth_client_error_retry_count 0 and a fix event logged last (after a
\* reload fix it is the newest readable entry of the token log, with the
\* adopted tokens); the store is written only by the log step
C25_ReloadThenLog ==
    [][\A s \in Sessions :
          C25_Rejected(s) =>
             LET reloaded == fixed_by_reloading_credentials(C25_AtRejection(s), store)
                 logged(log_ok) ==
                     fixed_by_loading_from_log(reloaded.q, store, token_log, log_ok)
                 t == qba'[s].trace
                 consulted == Len(t) >= 2 /\ t[2] = "fixed_by_loading_from_log"
             IN  /\ t # <<>>
                 /\ t[1] = "fixed_by_reloading_credentials"
                 /\ consulted <=> ~reloaded.fixed
                 /\ store' # store => consulted
                 /\ reloaded.fixed =>
                       /\ t = <<"fixed_by_reloading_credentials", "log_token_fix">>
                       /\ token_log' = <<LogEntry("fix_bucket", reloaded.q, now)>>
                 /\ (reloaded.fixed \/ t[Len(t)] = "log_token_fix") =>
                       /\ qba'[s].pc = "idle"
                       /\ qba'[s].result = "returned"
                       /\ qba'[s].auth_client_error_retry_count = 0
                       /\ t[Len(t)] = "log_token_fix"
                 /\ (consulted /\ t[Len(t)] = "log_token_fix") =>
                       /\ logged(TRUE).fixed
                       /\ store' = logged(TRUE).store
                       /\ UNCHANGED token_log
                 /\ t[Len(t)] # "log_token_fix" =>
                       /\ \E log_ok \in BOOLEAN : ~logged(log_ok).fixed
                       /\ qba'[s].auth_client_error_retry_count
                             = qba[s].auth_client_error_retry_count + 1
                       /\ UNCHANGED <<store, token_log>>]_vars

\* one session was fixed by the reload, the other by the token log, each
\* after a rejected exchange during which the error count stood above 0
C25_Witness ==
    \E a, b \in Sessions :
        /\ qba[a].trace = <<"fixed_by_reloading_credentials", "log_token_fix">>
        /\ qba[b].trace = <<"fixed_by_reloading_credentials",
                            "fixed_by_loading_from_log", "log_token_fix">>
        /\ qba[a].result = "returned" /\ qba[a].pc = "idle"
        /\ qba[b].result = "returned" /\ qba[b].pc = "idle"
        /\ qba[a].auth_client_error_retry_count = 0
        /\ qba[b].auth_client_error_retry_count = 0
        /\ qba[a].exchanges >= 2 \/ qba[b].exchanges >= 2


\* session s is about to call session.refresh()
C26_Exchanging(s) == qba[s].pc = "refresh" /\ ~suspects_false_positive(qba[s], now)

\* s as fixed_by_reloading_credentials() finds it after an AuthClientError
C26_Before(s) ==
    [qba[s] EXCEPT !.exchanges = @ + 1, !.last_call_was_unauthorized = "True",
                   !.submitted = qba[s].session.refresh_token]

\* C26: wherever fixed_by_reloading_credentials() may run: when it returns
\* True the stored expires_at is strictly later than the one held before (or
\* none was held) and the AuthClient tokens equal the stored ones; when it
\* returns False access_token, refresh_token, expires_at and the AuthClient
\* tokens are what they were before the call
C26_ReloadAdoptsOnlyNewer ==
    \A s \in Sessions :
        C26_Exchanging(s) =>
            LET q == C26_Before(s)
                r == fixed_by_reloading_credentials(q, store)
            IN  /\ r.fixed =>
                      /\ r.q.session.access_token = store.access_token
                      /\ r.q.session.refresh_token = store.refresh_token
                      /\ ~Truthy(q.expires_at) \/ StrLT(q.expires_at, store.expires_at)
                /\ ~r.fixed => TokensOf(r.q) = TokensOf(q)


\* session s adopts tokens from the token log in this step
C27_Adopts(s) ==
    /\ qba[s].pc = "refresh"
    /\ qba'[s].exchanges = qba[s].exchanges + 1
    /\ qba'[s].trace = <<"fixed_by_reloading_credentials",
                         "fixed_by_loading_from_log", "log_token_fix">>

\* C27: tokens are adopted from the token log only from its newest entry,
\* which records a token exchange and was written by neither variant of
\* log_token_fix, whose access_token differs from the current one and whose
\* derived expiry is not earlier than the current expires_at; the in-memory
\* tokens, the AuthClient tokens and the store then hold the adopted tokens
C27_AdoptsLatestExchange ==
    [][\A s \in Sessions :
          C27_Adopts(s) =>
             /\ token_log # <<>>
             /\ token_log[1].kind = "exchange"
             /\ token_log[1].access_token # store.access_token
             /\ \/ ~Truthy(store.expires_at)
                \/ StrGE(Str(token_log[1].timestamp + Minutes(LOG_TOKEN_MINUTES)),
                         store.expires_at)
             /\ qba'[s].access_token = token_log[1].access_token
             /\ qba'[s].refresh_token = token_log[1].refresh_token
             /\ qba'[s].session.access_token = token_log[1].access_token
             /\ qba'[s].session.refresh_token = token_log[1].refresh_token
             /\ store'.access_token = token_log[1].access_token
             /\ store'.refresh_token = token_log[1].refresh_token]_vars


\* q still holds the credentials both sessions started from
C28_Starting(q) ==
    /\ q.refresh_token = 1
    /\ q.session.refresh_token = 1
    /\ q.access_token \in {None, 1}
    /\ q.expires_at \in InitialExpiries

\* in this step the exchange of s, which holds the starting credentials, is
\* rejected as stale, the other session's exchange having been accepted and
\* persisted before
C28_RejectedStale(s) ==
    /\ qba[s].pc = "refresh"
    /\ qba'[s].exchanges = qba[s].exchanges + 1
    /\ provider' = provider
    /\ C28_Starting(qba[s])
    /\ qba[s].session.refresh_token # provider.refresh_token
    /\ store.access_token = provider.access_token
    /\ store.refresh_token = provider.refresh_token

\* C28: when A's exchange was accepted and persisted before B's exchange is
\* rejected as stale, B's refresh() returns without raising, B's AuthClient
\* and in-memory tokens equal the tokens A persisted, and B neither writes
\* the store nor exchanges again in that call
C28_LoserAdoptsWinner ==
    [][\A s \in Sessions :
          C28_RejectedStale(s) =>
             /\ qba'[s].pc = "idle"
             /\ qba'[s].result = "returned"
             /\ qba'[s].session.access_token = store.access_token
             /\ qba'[s].session.refresh_token = store.refresh_token
             /\ qba'[s].access_token = store.access_token
             /\ qba'[s].refresh_token = store.refresh_token
             /\ store' = store]_vars


\* request() of session s returns a response in this step
C29_Responds(s) ==
    /\ qba[s].rpc # "idle"
    /\ qba'[s].rpc = "idle"
    /\ qba'[s].rresult = "response"

\* C29: when request() returns a response to its caller the AuthErrorState
\* is reset: last_call_was_unauthorized is false and
\* auth_client_error_retry_count is 0, also after a 401 earlier in the call
C29_ResetOnResponse ==
    [][\A s \in Sessions :
          C29_Responds(s) =>
             /\ qba'[s].last_call_was_unauthorized = "False"
             /\ qba'[s].auth_client_error_retry_count = 0]_vars


\* the records of a list body that have a 'Fault' wrapper
C33_Wrapped == { i \in 1..Len(response_data.items) : response_data.items[i].hasFault }

\* C33: every element of the list get_list_of_faults returns has a 'Fault'
\* wrapper, whatever the shape of the body; and for a body in list form
\* every record with a wrapper yields its error rows in error_df, whether
\* or not other records of the list lack one
C33_FaultsAreWrapped ==
    Given =>
        /\ \A k \in 1..Len(faults) : faults[k].hasFault
        /\ response_data.type = "list" =>
              \A i \in C33_Wrapped :
                 LET rows == SelectSeq(error_df, LAMBDA row : row.sib = i)
                 IN  /\ Len(rows) = Len(response_data.items[i].Error)
                     /\ \A k \in 1..Len(rows) :
                           /\ rows[k].code = response_data.items[i].Error[k].code
                           /\ rows[k].Detail = response_data.items[i].Error[k].Detail


\* C37: the SuspectedTransientError that resolve() raises carries Message,
\* code and Detail of one fault that itself satisfies the transient
\* condition: code '6000' and the wait phrase in its detail
C37_RaisedFaultIsTransient ==
    (Resolved /\ raised.type = "SuspectedTransientError") =>
        \E i \in 1..Len(error_df) :
            /\ error_df[i].code \in BUSINESS_VALIDATION_ERROR_CODES
            /\ Contains(fillna(error_df[i].Detail), WAIT_PHRASE)
            /\ raised.code = error_df[i].code
            /\ raised.detail = error_df[i].Detail
            /\ raised.name = error_df[i].Message


\* the last run of the body of refresh() was a false-positive skip
C34_Skipped(q) == q.trace = <<"increment_auth_client_error_retry_count">>

\* session s passes over a suspected false positive in this step
C34_Skips(s) ==
    /\ qba[s].pc = "refresh"
    /\ qba'[s].pc = "idle"
    /\ qba'[s].exchanges = qba[s].exchanges
    /\ C34_Skipped(qba'[s])

\* C34: a false-positive skip never follows a false-positive skip: the run
\* of refresh() before it has contacted the provider (or there was none),
\* and the count is reset only by a run that contacts the provider; so the
\* refresh() after the second 401 of one request() call skips only if the
\* refresh() after the first 401 has contacted the provider
C34_SkipAtMostOnce ==
    [][\A s \in Sessions :
          /\ C34_Skips(s) =>
                /\ ~C34_Skipped(qba[s])
                /\ qba[s].auth_client_error_retry_count = 0
                /\ qba'[s].auth_client_error_retry_count = 1
                /\ (qba[s].rpc = "refreshing" /\ qba[s].refreshes >= 2) =>
                      /\ qba[s].trace # <<>>
                      /\ qba[s].trace[1] \in {"save_new_tokens",
                                              "fixed_by_reloading_credentials"}
          /\ (qba'[s].auth_client_error_retry_count
                 < qba[s].auth_client_error_retry_count) =>
                /\ qba'[s].exchanges = qba[s].exchanges + 1
                /\ qba'[s].submitted = qba[s].session.refresh_token]_vars

\* one request() call, the only call made: its first 401 was passed over
\* as a false positive and its second 401 led to the only token exchange
C34_Witness ==
    \E s \in Sessions :
        /\ calls = 1
        /\ qba[s].rpc = "refreshing"
        /\ qba[s].refreshes = 2
        /\ qba[s].http = 2
        /\ qba[s].pc = "idle"
        /\ qba[s].exchanges = 1
        /\ provider.issued = 2
        /\ qba[s].trace = <<"save_new_tokens", "log_token_event_outcome">>
        /\ qba[s].auth_client_error_retry_count = 0


\* _basic_call calls itself at line 351 in this step
C35_Reissues ==
    /\ frames # <<>>
    /\ Len(frames') = Len(frames) + 1
    /\ frames'[Len(frames')].fn = "_basic_call"

\* C35: the call that _basic_call re-issues after a new token has the
\* arguments of the original call: the same request (type, url, params and
\* the headers they decide) and the same body, for string bodies and for
\* dict bodies alike
C35_ReissueSameRequest ==
    [][C35_Reissues =>
          /\ frames'[Len(frames')].args.accept = frames[Len(frames)].args.accept
          /\ frames'[Len(frames')].args.data = frames[Len(frames)].args.data]_vars


\* C36: when address_new_oauth2_token() has returned True and _basic_call
\* re-issues the call, the new-token flag has been cleared, with or without
\* a new_token_callback_function; and the re-issue recursion ends by
\* itself: no call ends in the RecursionError of the interpreter
C36_ReissueTerminates ==
    [][/\ (frames # <<>> /\ Len(frames') = Len(frames) + 1) => ~qbs'.qba.new_token
       /\ done'.value # <<"RecursionError">>]_vars


\* a request that changes the company's books: every POST but the query
C31_Mutating(req) == req.method = "POST" /\ req.path # "query"

C31_TouchlessRaises == {<<touchless_raise(d)>> : d \in Debuggers}

\* C31: when touchless_mode is true and the environment is not production,
\* create, update, delete, batch, upload and send end by raising and no
\* mutating request has been sent for them (the read of delete(object_id)
\* is a GET); read, report and query are not stopped by the touchless test:
\* they never end with its exception and, unless their arguments were refused,
\* they have sent their request.
C31_TouchlessBlocksMutations ==
    (api.touchless /\ ~api.production) =>
        /\ \A i \in 1..Len(wire) : ~C31_Mutating(wire[i])
        /\ (op.name \in MutatingOps) => op.result = "raised"
        /\ (op.name \in {"read", "report", "query"}) =>
              /\ (op.result = "raised") => op.value \notin C31_TouchlessRaises
              /\ (op.name \in {"read", "report"}
                    /\ op.value # <<"NotImplementedError">>) => wire # <<>>
              /\ (op.name = "query" /\ op.pc = "done"
                    /\ ~(op.result = "raised" /\ op.value = <<"Exception">>)) =>
                    wire # <<>>

\* delete(object_id=...) in touchless mode outside production has read the
\* object and was then stopped by touchless_test()
C31_Witness ==
    /\ api.touchless
    /\ ~api.production
    /\ op.name = "delete"
    /\ op.value = <<"Touchless Failure">>
    /\ wire = <<Request("GET", "object/id", <<>>)>>


\* the start position a query string asks for: its last STARTPOSITION clause,
\* the first object when it has none
C39_Position(query) ==
    LET starts == StartClauses(query)
    IN  IF starts = <<>> THEN 1 ELSE starts[Len(starts)][2]

\* C39: every query string that query() has sent holds at most one
\* STARTPOSITION clause, and of two successive requests of one query() the
\* second is the first one sent again or asks for the position per_page
\* after it.
C39_OneStartPosition ==
    (op.name = "query") =>
        /\ \A i \in 1..Len(wire) : Len(StartClauses(wire[i].body)) <= 1
        /\ \A i \in 1..(Len(wire) - 1) :
              \/ wire[i + 1].body = wire[i].body
              \/ C39_Position(wire[i + 1].body) = C39_Position(wire[i].body) + op.per_page


\* the objects a query() is to return: those from the start position of its
\* first request to the end of the table, in the server's order
C38_Expected ==
    LET start == C39_Position(wire[1].body)
        n == IF api.total - start + 1 > 0 THEN api.total - start + 1 ELSE 0
    IN  [i \in 1..n |-> start + i - 1]

\* C38: a query() that has sent a request and counts only has sent exactly
\* one and returns the count; one that does not count has sent no more
\* requests than there are pages up to the first short one (full pages of
\* per_page objects, then one with fewer), and when it has ended it returned
\* every object once in the server's order, having sent exactly that many.
C38_QueryReturnsEveryObjectOnce ==
    (op.name = "query" /\ wire # <<>>) =>
        LET pages == (Len(C38_Expected) \div op.per_page) + 1
        IN  IF op.count_only
            THEN /\ op.pc = "done"
                 /\ op.result = "returned"
                 /\ Len(wire) = 1
                 /\ op.value = <<Len(C38_Expected)>>
            ELSE /\ Len(wire) <= pages
                 /\ (op.pc = "done") =>
                       /\ op.result = "returned"
                       /\ op.value = C38_Expected
                       /\ Len(wire) = pages


\* the first client code of the substitute_client_code chain of client_code
\* that has no substitute
RECURSIVE C32_Effective(_, _)
C32_Effective(bs, client_code) ==
    IF bs[client_code].substitute_client_code = "" THEN client_code
    ELSE C32_Effective(bs, bs[client_code].substitute_client_code)

\* C32: _get_effective_credentials_bucket(client_code), called by __init__ or
\* on the object, returns the bucket of the first client code of the chain
\* that has no substitute and leaves effective_client_code equal to that
\* code, whatever the length of the chain.
C32_ReturnsEffectiveBucket ==
    [][\A client_code \in ClientCodes :
          LET effective == C32_Effective(buckets, client_code)
          IN  /\ (\E refresh_ok \in BOOLEAN, terminal \in Terminals :
                     NewQBOAuth(client_code, refresh_ok, terminal)) =>
                    /\ qboauth'.fo_darkonim = effective
                    /\ qboauth'.effective_client_code = effective
              /\ GetEffectiveCredentialsBucket(client_code) =>
                    /\ qboauth'.returned = effective
                    /\ qboauth'.effective_client_code = effective]_vars


\* C40: when _save_client_credentials() has written the credentials of the
\* object to its bucket and _set_client_credentials_from_bucket() is called
\* next, the object has the same access_token, refresh_token and realm_id
\* after the call as before it.
C40_SaveThenSetReproduces ==
    [][(/\ qboauth.called = "_save_client_credentials"
        /\ qboauth.wrote
        /\ SetClientCredentialsFromBucket) =>
          /\ qboauth'.access_token = qboauth.access_token
          /\ qboauth'.refresh_token = qboauth.refresh_token
          /\ qboauth'.realm_id = qboauth.realm_id]_vars

====
